---- MODULE Spec2Model ----
(***************************************************************************)
(* growatt2lorawan-v2: uplink scheduler and wake-cycle state machine.      *)
(*                                                                         *)
(* The specifications share the variables:                                 *)
(*   SpecSched  the UplinkScheduler object driven by arbitrary sequences   *)
(*              of begin()/getNextPort() calls;                            *)
(*   SpecSleep  sleepDuration() applied to every combination of the        *)
(*              preferences, battery reading, clock state and local time;  *)
(*   Spec       one wake episode of setup(), started from any retained     *)
(*              state: wake-up, radio initialisation, lwActivate(), the    *)
(*              uplink loop, session save and deep sleep;                  *)
(*   SpecJoin   the chain of wake episodes of a device whose join attempts *)
(*              fail, up to the episode in which the join succeeds.        *)
(***************************************************************************)
EXTENDS Integers, Sequences, FiniteSets, TLC

\* ------------------------------------------------------------------------
\* Bounds of the model
\* ------------------------------------------------------------------------
MaxPort == 2
MaxMult == 3
MaxCycle == 6
MaxBegins == 2
MaxGets == 3
MaxBoot == 3
MaxCmdDownlinks == 2
MaxEpisodes == 3

\* ------------------------------------------------------------------------
\* Program constants
\* ------------------------------------------------------------------------
NUM_PORTS == 2
SLEEP_INTERVAL_MIN == 60
SLEEP_INTERVAL == 360
SLEEP_INTERVAL_LONG == 900
LW_STATUS_INTERVAL == 0
MAX_UPLINK_SIZE == 51
BATTERY_WEAK == 3500
BATTERY_LOW == 3200
CMD_GET_DATETIME == 32
CMD_SET_DATETIME == 33
CMD_SET_SLEEP_INTERVAL == 49
CMD_SET_SLEEP_INTERVAL_LONG == 51
CMD_SET_LW_STATUS_INTERVAL == 53
CMD_GET_LW_CONFIG == 54
CMD_GET_LW_STATUS == 56

\* uint16_t arithmetic of the retained counters
ToUint16(x) == x % 65536

\* uint32_t values are kept as two 16-bit halves (value = hi * 65536 + lo);
\* ToUint32 converts an integer of the int32_t range with wrap-around
ToUint32(x) ==
    IF x >= 0
    THEN [hi |-> x \div 65536, lo |-> x % 65536]
    ELSE [hi |-> 65535 - ((-x - 1) \div 65536), lo |-> 65535 - ((-x - 1) % 65536)]

U32Less(a, b) == a.hi < b.hi \/ (a.hi = b.hi /\ a.lo < b.lo)
U32MaxLeft(a, b) == a
U32Max(a, b) == IF U32Less(a, b) THEN b ELSE a

\* uint8_t conversion (implicit at begin()'s parameter and at the return of
\* getNextPort(), explicit in the arithmetic on the members)
ToUint8(x) == x % 256

\* the compiled-in table of growatt2lorawan_cfg.h
ProgramSchedule == << [port |-> 1, mult |-> 1], [port |-> 2, mult |-> 3] >>

Rows == [port : 1..MaxPort, mult : 0..MaxMult]
Tables == [1..NUM_PORTS -> Rows]

\* ------------------------------------------------------------------------
\* State
\* ------------------------------------------------------------------------
VARIABLES
    pc,               \* position of the program ("sched" in SpecSched)
    UplinkSchedule,   \* the schedule table (immutable after Init)
    uplinkScheduler,  \* the UplinkScheduler object: uplinks, index, cycle
    begins,           \* history: number of begin() calls on the object
    returned,         \* history: values returned by getNextPort() since the last begin()
    modByZero,        \* history: a due check evaluated x % 0
    \* retained over deep sleep (RTC RAM)
    bootCount,
    bootCountSinceUnsuccessfulJoin,
    lwStatusUplinkPending,
    appStatusUplinkPending,
    rtcLastClockSync,
    rtcTimeSource,
    longSleep,
    LWsession,        \* saved session: valid flag and uplink frame counter
    \* the build, and the watchdog scratch registers of the RP2040 build
    platform,         \* "ESP32" or "RP2040"
    scratch,          \* scratch[3] (two 16-bit halves), scratch[2], bit 1 of scratch[1]
    \* flash
    hasNonces,        \* store.isKey("nonces")
    nonces,           \* the stored nonces buffer: number of join requests it accounts for
    preferences,      \* namespace "GRO2LW" of the Preferences library: the stored keys
    \* RAM of one wake episode
    prefs,            \* sleep_interval, sleep_interval_long, lw_stat_interval
    node,             \* LoRaWANNode: activated flag, uplink frame counter, pending
                      \* DeviceTimeReq and LinkCheckReq, join requests accounted for
                      \* in its nonces buffer
    actState,         \* the local "state" of lwActivate()
    state,            \* the local "state" of setup(): last sendReceive() result
    isConfirmed,
    fsmStage,
    uplinkReq,
    fPort,
    uplink,           \* uplinkSize of the iteration, the length it was encoded to, and
                      \* the transport's maximum payload length in this iteration
    downlink,         \* downlinkDetails.fPort and downlinkPayload[0 .. downlinkSize-1]
                      \* of the last exchange (size 0: none, or MAC commands only)
    setupVoltage,     \* voltage of setup(): battery voltage read at wake-up [mV],
                      \* 0 = not measured
    haltMsg,          \* message of the debug() call that froze the device
    sleepSeconds,     \* argument of the last gotoSleep() ("planned" = sleepDuration())
    \* environment
    console,          \* the formatters of the network console: input, bytes and
                      \* fPort on the air, decoded output
    appStatusUplinkInterval,
    \* history of the episode
    exchanges,        \* sendReceive calls of this episode
    cmds,             \* exchanges of this episode whose downlink decoded to a command id
    dueAtBegin,       \* uplinks after begin()
    sensorPorts,      \* fPorts of the SENSOR_DATA exchanges of this episode
    events,           \* transport calls made and debug() messages logged in this episode
    sleepCall,        \* the last sleepDuration() call: what it read and selected
    failedJoins,      \* consecutive failed join attempts (not limited to 16 bits)
    episodes,         \* wake episodes started so far
    uplinkWait        \* the uplinkDelay() call made since the last exchange: "none",
                      \* or whether it waited "short" of timeUntilUplink() or not

schedVars == << uplinkScheduler, begins, returned, modByZero >>
retained == << bootCount, bootCountSinceUnsuccessfulJoin, lwStatusUplinkPending,
               appStatusUplinkPending, rtcLastClockSync, rtcTimeSource, longSleep,
               LWsession >>
build == << platform, scratch >>
flash == << hasNonces, nonces, preferences >>
ram == << prefs, node, actState, state, isConfirmed, fsmStage, uplinkReq, fPort, uplink, downlink,
         setupVoltage, haltMsg, sleepSeconds >>
hist == << exchanges, cmds, dueAtBegin, sensorPorts >>
ghost == << events, sleepCall, failedJoins, episodes, uplinkWait >>
mainVars == << retained, build, flash, ram, hist, console, appStatusUplinkInterval, ghost >>

vars == << pc, UplinkSchedule, schedVars, mainVars >>

\* ------------------------------------------------------------------------
\* UplinkScheduler
\* ------------------------------------------------------------------------

\* Left operand of the && in the due check: the modulo is evaluated only
\* when this holds.
EvalModAlways(mult) == TRUE
EvalMod(mult) == mult # 0

\* cycle % mult as the C expression computes it once it is evaluated
\* (a zero divisor is recorded in modByZero, its result is irrelevant)
ModOf(c, mult) == IF mult = 0 THEN 0 ELSE c % mult

\* UplinkSchedule[i].mult && (cycle % UplinkSchedule[i].mult == 0)
DueWithoutCompare(row, c) == EvalMod(row.mult) /\ ModOf(c, row.mult) # 0
Due(row, c) == EvalMod(row.mult) /\ ModOf(c, row.mult) = 0

\* rows i of the table, lo <= i <= hi, whose due check divides by zero
DivByZeroIn(table, lo, hi) ==
    \E i \in lo..hi : EvalMod(table[i].mult) /\ table[i].mult = 0

\* the member initialisers of the class
SchedConstructed == [uplinks |-> 0, index |-> 0, cycle |-> 0]

\* number of due rows among the first n rows
RECURSIVE CountDue(_, _, _)
CountDue(table, c, n) ==
    IF n = 0 THEN 0
    ELSE CountDue(table, c, n - 1) + (IF Due(table[n], c) THEN 1 ELSE 0)

\* void begin(uint8_t current_cycle)
BeginKeepIndex(s, table, current_cycle) ==
    LET c == ToUint8(current_cycle)
    IN [uplinks |-> ToUint8(s.uplinks + CountDue(table, c, Len(table))),
        index |-> s.index,
        cycle |-> c]
Begin(s, table, current_cycle) ==
    LET c == ToUint8(current_cycle)
    IN [uplinks |-> ToUint8(s.uplinks + CountDue(table, c, Len(table))),
        index |-> 0,
        cycle |-> c]

\* bool hasUplinks()
HasUplinksAlways(s) == s.uplinks >= 0
HasUplinks(s) == s.uplinks > 0

\* 1-based rows that getNextPort() can still find (C index i = row - 1 >= index)
DueRowsFromStart(s, table) ==
    {r \in 1..Len(table) : Due(table[r], s.cycle)}
DueRowsFrom(s, table) ==
    {r \in 1..Len(table) : r - 1 >= s.index /\ Due(table[r], s.cycle)}

Min(S) == CHOOSE x \in S : \A y \in S : x <= y

\* uint8_t getNextPort(): the new object state and the returned port
GetNextPortWrapAround(s, table) ==
    LET found == DueRowsFrom(s, table)
    IN IF found = {}
       THEN [sched |-> [s EXCEPT !.index = 0], port |-> 0, last |-> Len(table)]
       ELSE LET r == Min(found)
            IN [sched |-> [s EXCEPT !.index = r, !.uplinks = ToUint8(s.uplinks + 255)],
                port |-> ToUint8(table[r].port),
                last |-> r]
GetNextPort(s, table) ==
    LET found == DueRowsFrom(s, table)
    IN IF found = {}
       THEN [sched |-> s, port |-> 0, last |-> Len(table)]
       ELSE LET r == Min(found)
            IN [sched |-> [s EXCEPT !.index = r, !.uplinks = ToUint8(s.uplinks + 255)],
                port |-> ToUint8(table[r].port),
                last |-> r]

\* ------------------------------------------------------------------------
\* Values of the wake-cycle state
\* ------------------------------------------------------------------------
NoSession == [valid |-> FALSE, fCntUp |-> 0]
NodeReset == [active |-> FALSE, fCntUp |-> 0, timeReq |-> FALSE, linkCheckReq |-> FALSE,
              devNonce |-> 0]

\* no sleepDuration() call yet
NoSleepCall == [called |-> FALSE, voltage |-> 0, tm |-> [tm_min |-> 0, tm_sec |-> 0],
                base |-> 0, modByZero |-> FALSE, longSleepBefore |-> FALSE]

\* scratch registers that hold the given values
Scratch(bc, failed, lastSync, ls) ==
    [bootCount |-> bc, failed |-> failed, lastSync |-> lastSync, longSleep |-> ls]

NoConsole == [input |-> [key |-> "none"], bytes |-> << >>, fPort |-> 0,
              output |-> [key |-> "none"]]

NoUplink == [size |-> 0, encoded |-> 0, maxLen |-> 0]
NoDownlink == [fPort |-> 0, payload |-> << >>]

DefaultPrefs == [sleep_interval |-> SLEEP_INTERVAL,
                 sleep_interval_long |-> SLEEP_INTERVAL_LONG,
                 lw_stat_interval |-> LW_STATUS_INTERVAL]

\* the struct prefs before setup() has loaded it (zero-initialised global)
PrefsZero == [sleep_interval |-> 0, sleep_interval_long |-> 0, lw_stat_interval |-> 0]

\* a Preferences namespace is a function from the keys stored in it to
\* their values; no key is stored in a namespace never written
EmptyStore == [key \in {} |-> 0]

\* preferences.getUShort(key, defaultValue), preferences.getUChar(key, defaultValue)
GetPref(store, key, defaultValue) ==
    IF key \in DOMAIN store THEN store[key] ELSE defaultValue

\* preferences.putUShort(key, value), preferences.putUChar(key, value)
PutPref(store, key, value) ==
    [k \in DOMAIN store \cup {key} |-> IF k = key THEN value ELSE store[k]]

\* setup(): prefs.sleep_interval = preferences.getUShort("sleep_int", SLEEP_INTERVAL); ...
LoadPrefsNoDefaults(store) ==
    [sleep_interval |-> GetPref(store, "sleep_int", 0),
     sleep_interval_long |-> GetPref(store, "sleep_int_long", 0),
     lw_stat_interval |-> GetPref(store, "lw_stat_int", 0)]
LoadPrefs(store) ==
    [sleep_interval |-> GetPref(store, "sleep_int", SLEEP_INTERVAL),
     sleep_interval_long |-> GetPref(store, "sleep_int_long", SLEEP_INTERVAL_LONG),
     lw_stat_interval |-> GetPref(store, "lw_stat_int", LW_STATUS_INTERVAL)]

\* the namespace in which every key holds the value of the struct
StoreOf(p) ==
    [key \in {"sleep_int", "sleep_int_long", "lw_stat_int"} |->
        CASE key = "sleep_int" -> p.sleep_interval
          [] key = "sleep_int_long" -> p.sleep_interval_long
          [] OTHER -> p.lw_stat_interval]

\* ------------------------------------------------------------------------
\* SpecSched: the scheduler object under arbitrary call sequences
\* ------------------------------------------------------------------------
InitSched ==
    /\ pc = "sched"
    /\ UplinkSchedule \in Tables
    /\ uplinkScheduler = SchedConstructed
    /\ begins = 0
    /\ returned = << >>
    /\ modByZero = FALSE
    /\ bootCount = 1
    /\ bootCountSinceUnsuccessfulJoin = 0
    /\ lwStatusUplinkPending = FALSE
    /\ appStatusUplinkPending = FALSE
    /\ rtcLastClockSync = 0
    /\ rtcTimeSource = "E_UNSYNCHED"
    /\ longSleep = FALSE
    /\ LWsession = NoSession
    /\ hasNonces = FALSE
    /\ nonces = 0
    /\ preferences = EmptyStore
    /\ prefs = DefaultPrefs
    /\ node = NodeReset
    /\ actState = "RADIOLIB_ERR_NONE"
    /\ state = 0
    /\ isConfirmed = FALSE
    /\ fsmStage = "E_SENSORDATA"
    /\ uplinkReq = 0
    /\ fPort = 1
    /\ uplink = NoUplink
    /\ downlink = NoDownlink
    /\ setupVoltage = 0
    /\ console = NoConsole
    /\ platform = "ESP32"
    /\ scratch = Scratch(0, 0, 0, FALSE)
    /\ haltMsg = ""
    /\ sleepSeconds = ToUint32(0)
    /\ appStatusUplinkInterval = 0
    /\ exchanges = 0
    /\ cmds = 0
    /\ dueAtBegin = 0
    /\ sensorPorts = << >>
    /\ events = {}
    /\ sleepCall = NoSleepCall
    /\ failedJoins = 0
    /\ episodes = 1
    /\ uplinkWait = "none"

SchedBegin ==
    /\ pc = "sched"
    /\ begins < MaxBegins
    /\ \E c \in 0..MaxCycle :
         uplinkScheduler' = Begin(uplinkScheduler, UplinkSchedule, c)
    /\ begins' = begins + 1
    /\ returned' = << >>
    /\ modByZero' = (modByZero \/ DivByZeroIn(UplinkSchedule, 1, Len(UplinkSchedule)))
    /\ UNCHANGED << pc, UplinkSchedule, mainVars >>

SchedGetNextPort ==
    /\ pc = "sched"
    /\ begins > 0
    /\ Len(returned) < MaxGets
    /\ LET g == GetNextPort(uplinkScheduler, UplinkSchedule)
       IN /\ uplinkScheduler' = g.sched
          /\ returned' = Append(returned, g.port)
          /\ modByZero' = (modByZero \/
                 DivByZeroIn(UplinkSchedule, uplinkScheduler.index + 1, g.last))
    /\ UNCHANGED << pc, UplinkSchedule, begins, mainVars >>

NextSched == SchedBegin \/ SchedGetNextPort

SpecSched == InitSched /\ [][NextSched]_vars

\* ------------------------------------------------------------------------
\* Inputs of the wake-cycle model
\* ------------------------------------------------------------------------
MinOf(a, b) == IF a <= b THEN a ELSE b

\* schedule tables of the wake-cycle model: the compiled-in one, one without
\* any due row, one whose rows are due every third cycle, one in reverse cadence
MainTables ==
    { ProgramSchedule,
      << [port |-> 1, mult |-> 0], [port |-> 2, mult |-> 0] >>,
      << [port |-> 1, mult |-> 3], [port |-> 2, mult |-> 3] >>,
      << [port |-> 1, mult |-> 2], [port |-> 2, mult |-> 1] >> }

\* boot counts at wake-up: the first boots and the 8-bit boundary
BootCounts == (1..MaxBoot) \cup {255}

\* frame counters of a saved session
SavedFCnts == {1, 63}

\* battery voltage readings [mV]: not measured, low, weak, good
Voltages == {0, 3100, 3400, 4000}

\* local time (minute, second) at the end of an episode
Clocks == { [tm_min |-> 0, tm_sec |-> 0], [tm_min |-> 7, tm_sec |-> 30] }

LwStatIntervals == {0, 1, 2}

\* the namespace at wake-up: never written, or holding a status interval
\* that a downlink of an earlier episode has set
StoredPreferences ==
    {EmptyStore} \cup
    { PutPref(EmptyStore, "lw_stat_int", i) : i \in LwStatIntervals \ {LW_STATUS_INTERVAL} }

\* node.getMaxPayloadLen(): the data rates of the regional plans give 11
\* bytes (US915 DR0) at least; 51 bytes at EU868 DR0, 222 bytes at EU868 DR5
MaxPayloadLens == {11, 51, 222}

\* encoder.getLength() after appLayer.getPayloadStage2(): a short payload
\* and one that fills the buffer uplinkPayload[MAX_UPLINK_SIZE + 8]
EncodedLengths == {8, MAX_UPLINK_SIZE + 8}

\* application downlinks offered by the network
Downlinks ==
    { [fPort |-> CMD_GET_LW_CONFIG, payload |-> << 0 >>],
      [fPort |-> CMD_SET_SLEEP_INTERVAL, payload |-> << 1, 44 >>],
      [fPort |-> CMD_SET_SLEEP_INTERVAL, payload |-> << 44 >>],
      [fPort |-> 153, payload |-> << 0 >>],
      [fPort |-> 0, payload |-> << 1 >>] }

\* ------------------------------------------------------------------------
\* Helpers of setup()
\* ------------------------------------------------------------------------

\* void debug(bool isFail, const char* message, int state, bool Freeze):
\* TRUE when the call never returns
Debug(isFail, Freeze) == isFail /\ Freeze

\* the Freeze argument of the debug() calls of lwActivate() and setup()
FreezeOnRadioFail == TRUE
FreezeOnNodeFail == TRUE
FreezeOnRestoreFailMutant == TRUE
FreezeOnRestoreFail == FALSE
FreezeOnActivateRestoredFail == TRUE
FreezeOnSendReceiveFailMutant == TRUE
FreezeOnSendReceiveFail == FALSE

\* if (voltage && voltage <= battery_weak)
BatteryWeakUnmeasured(voltage, battery_weak) == voltage <= battery_weak
BatteryWeak(voltage, battery_weak) == voltage # 0 /\ voltage <= battery_weak

\* results a build can give for x % 0 when it does not trap: 0, or the
\* dividend x
UndefinedRemainders(x) == {0, x}

\* uint32_t sleepDuration(uint16_t battery_weak); undef is the value of
\* (tm_min * 60) % sleep_interval when sleep_interval is 0
SleepDuration(p, voltage, lastSync, tm, battery_weak, undef) ==
    LET weak == BatteryWeak(voltage, battery_weak)
        base == IF weak THEN p.sleep_interval_long ELSE p.sleep_interval
        diff0 == (IF base = 0 THEN undef ELSE (tm.tm_min * 60) % base) + tm.tm_sec
        diff == IF diff0 > base THEN diff0 - base ELSE diff0
        aligned == IF lastSync # 0 THEN ToUint32(base - diff) ELSE ToUint32(base)
    IN [seconds |-> U32Max(aligned, ToUint32(SLEEP_INTERVAL_MIN)),
        longSleep |-> weak,
        base |-> base,
        modByZero |-> (lastSync # 0 /\ base = 0)]

\* the value decodeDownlink() returns: the command id, if the downlink
\* requests a response, otherwise 0
ResponseRequestedAlways(port) == port
ResponseRequested(port) ==
    IF port \in {CMD_GET_DATETIME, CMD_GET_LW_CONFIG, CMD_GET_LW_STATUS}
    THEN port ELSE 0

\* uint8_t decodeDownlink(uint8_t port, uint8_t *payload, size_t size):
\* the command id to answer (0 = none) and the preferences after the command
DecodeDownlink(port, payload, p) ==
    [cmd |-> ResponseRequested(port),
     prefs |->
        IF port = CMD_SET_SLEEP_INTERVAL /\ Len(payload) = 2
        THEN [p EXCEPT !.sleep_interval = payload[1] * 256 + payload[2]]
        ELSE IF port = CMD_SET_SLEEP_INTERVAL_LONG /\ Len(payload) = 2
        THEN [p EXCEPT !.sleep_interval_long = payload[1] * 256 + payload[2]]
        ELSE IF port = CMD_SET_LW_STATUS_INTERVAL /\ Len(payload) = 1
        THEN [p EXCEPT !.lw_stat_interval = payload[1]]
        ELSE p]

\* fsmStage == E_RESPONSE: fPort = uplinkReq
ResponsePortOfStatus(req) == CMD_GET_LW_STATUS
ResponsePort(req) == req

\* uplinkReq = 0; if (state > 0) if (downlinkSize > 0) if (downlinkDetails.fPort > 0)
\*     uplinkReq = decodeDownlink(...)
UplinkReqKept(before, forUs, cmd) == IF forUs THEN cmd ELSE before
UplinkReqAfter(before, forUs, cmd) == IF forUs THEN cmd ELSE 0

\* decodeDownlink(): the namespace after the command; a preference that a
\* set command changes is written to its key at once
DecodeDownlinkStoresNothing(port, payload, store) == store
DecodeDownlinkStores(port, payload, store) ==
    IF port = CMD_SET_SLEEP_INTERVAL /\ Len(payload) = 2
    THEN PutPref(store, "sleep_int", payload[1] * 256 + payload[2])
    ELSE IF port = CMD_SET_SLEEP_INTERVAL_LONG /\ Len(payload) = 2
    THEN PutPref(store, "sleep_int_long", payload[1] * 256 + payload[2])
    ELSE IF port = CMD_SET_LW_STATUS_INTERVAL /\ Len(payload) = 1
    THEN PutPref(store, "lw_stat_int", payload[1])
    ELSE store

\* if (fCntUp && (fCntUp % 64 == 0)): request a LinkCheck and a confirmed uplink
LinkCheckDueAtZero(fCntUp) == fCntUp % 64 = 0
LinkCheckDue(fCntUp) == fCntUp # 0 /\ fCntUp % 64 = 0

\* if (prefs.lw_stat_interval && (fCntUp % prefs.lw_stat_interval == 0)):
\* && evaluates the modulo only when the interval is not zero
LwStatusDueUnguarded(interval, fCntUp) ==
    [due |-> interval = 0 \/ fCntUp % interval = 0,
     modByZero |-> interval = 0]
LwStatusDue(interval, fCntUp) ==
    LET evalMod == interval # 0
    IN [due |-> evalMod /\ fCntUp % interval = 0,
        modByZero |-> evalMod /\ interval = 0]

\* node.getMacDeviceTimeAns(&networkTime, &milliseconds, true) == RADIOLIB_ERR_NONE:
\* the answer to a pending DeviceTimeReq is there to be taken
GetMacDeviceTimeAnsAlways(n, answered) == TRUE
GetMacDeviceTimeAns(n, answered) == n.timeReq /\ answered

\* if (uplinkSize > maxPayloadLen) uplinkSize = maxPayloadLen; in the
\* E_SENSORDATA branch
UplinkSizeUntruncated(encoded, maxPayloadLen) == encoded
UplinkSize(encoded, maxPayloadLen) ==
    IF encoded > maxPayloadLen THEN maxPayloadLen ELSE encoded

\* void encodeCfgUplink(uint8_t port, uint8_t *uplinkPayload, uint8_t &payloadSize):
\* the sizes it can leave in payloadSize; for a port that is no command the
\* size is left as it was, and uplinkSize is not initialised
EncodeCfgUplink(port) ==
    CASE port = CMD_GET_DATETIME -> {5}
      [] port = CMD_GET_LW_CONFIG -> {5}
      [] port = CMD_GET_LW_STATUS -> {3}
      [] OTHER -> {0, 255}

\* lwStatusUplinkPending = false; in the E_LWSTATUS branch
LwPendingKept(pending) == pending
LwPendingAfterStatusUplink(pending) == FALSE

\* lwStatusUplinkPending in an E_LWSTATUS iteration: the flag is set when the
\* status uplink is due at this frame counter, and cleared afterwards in the branch
LwPendingSetLast(pending, due) == LwPendingAfterStatusUplink(pending) \/ due
LwPendingInStatusIteration(pending, due) == LwPendingAfterStatusUplink(pending \/ due)

\* the if / else-if chain at the end of the loop body
NextStageSensorFirst(req, hasUplinks, lwPending) ==
    IF hasUplinks THEN "E_SENSORDATA"
    ELSE IF req # 0 THEN "E_RESPONSE"
    ELSE IF lwPending THEN "E_LWSTATUS"
    ELSE "E_DONE"
NextStage(req, hasUplinks, lwPending) ==
    IF req # 0 THEN "E_RESPONSE"
    ELSE IF hasUplinks THEN "E_SENSORDATA"
    ELSE IF lwPending THEN "E_LWSTATUS"
    ELSE "E_DONE"

\* the end of the chain: the branch on appStatusUplinkPending is commented out
\* and the final else is taken whatever the flag says
LastStageAppStatus(appPending) == IF appPending THEN "E_APPSTATUS" ELSE "E_DONE"
LastStage(appPending) == "E_DONE"

\* ------------------------------------------------------------------------
\* Spec: one wake episode of setup()
\* ------------------------------------------------------------------------
Init ==
    /\ pc = "boot"
    /\ UplinkSchedule \in MainTables
    /\ uplinkScheduler = SchedConstructed
    /\ begins = 0
    /\ returned = << >>
    /\ modByZero = FALSE
    /\ bootCount \in BootCounts
    /\ bootCountSinceUnsuccessfulJoin = 0
    /\ appStatusUplinkPending = FALSE
    /\ rtcLastClockSync = 0
    /\ longSleep = FALSE
    /\ hasNonces \in BOOLEAN
    /\ nonces = IF hasNonces THEN 1 ELSE 0
    \* RTC RAM holds its initialisers at the first boot; later boots have a
    \* history: a session may be saved. No status uplink is pending: the loop
    \* ends only when the flag is false, and the other ways to sleep do not set it
    /\ lwStatusUplinkPending = FALSE
    /\ IF bootCount = 1
       THEN /\ LWsession = NoSession
            /\ rtcTimeSource = "E_GPS"
       ELSE /\ LWsession \in {NoSession} \cup
                  (IF hasNonces
                   THEN {[valid |-> TRUE, fCntUp |-> f] : f \in SavedFCnts}
                   ELSE {})
            /\ rtcTimeSource = "E_UNSYNCHED"
    /\ preferences \in StoredPreferences
    /\ prefs = PrefsZero
    /\ node = NodeReset
    /\ actState = "RADIOLIB_ERR_NONE"
    /\ state = 0
    /\ isConfirmed = FALSE
    /\ fsmStage = "E_SENSORDATA"
    /\ uplinkReq = 0
    /\ fPort = 1
    /\ uplink = NoUplink
    /\ downlink = NoDownlink
    /\ setupVoltage = 0
    /\ console = NoConsole
    /\ platform = "ESP32"
    /\ scratch = Scratch(0, 0, 0, FALSE)
    /\ haltMsg = ""
    /\ sleepSeconds = ToUint32(0)
    /\ appStatusUplinkInterval \in {0, 1}
    /\ exchanges = 0
    /\ cmds = 0
    /\ dueAtBegin = 0
    /\ sensorPorts = << >>
    /\ events = {}
    /\ sleepCall = NoSleepCall
    /\ failedJoins = 0
    /\ episodes = 1
    /\ uplinkWait = "none"

\* while (Freeze); in debug()
Halt(msg) ==
    /\ pc' = "halt"
    /\ haltMsg' = msg

\* gotoSleep(sleepDuration(battery_weak)); a modulo by zero in
\* sleepDuration() either traps or yields one of UndefinedRemainders
PlannedSleep(p, voltage, tm) ==
    \E undef \in UndefinedRemainders(tm.tm_min * 60), trap \in BOOLEAN :
       LET d == SleepDuration(p, voltage, rtcLastClockSync, tm, BATTERY_WEAK, undef)
       IN /\ ~d.modByZero => (undef = 0 /\ ~trap)
          /\ longSleep' = d.longSleep
          /\ sleepCall' = [called |-> TRUE, voltage |-> voltage, tm |-> tm,
                           base |-> d.base, modByZero |-> d.modByZero,
                           longSleepBefore |-> longSleep]
          /\ IF d.modByZero /\ trap
             THEN pc' = "trap" /\ UNCHANGED sleepSeconds
             ELSE pc' = "sleep" /\ sleepSeconds' = d.seconds

\* uint16_t voltage = getBatteryVoltage(): not measured, low, at the
\* threshold BATTERY_LOW, above it
BootVoltages == {0, 3100, BATTERY_LOW, BATTERY_LOW + 1}

\* if (voltage && voltage <= battery_low)
BatteryLowBelow(v, battery_low) == v # 0 /\ v < battery_low
BatteryLow(v, battery_low) == v # 0 /\ v <= battery_low

\* bootCount = watchdog_hw->scratch[3] & 0xFFFF; if (bootCount == 0) bootCount = 1;
RestoredBootCount(sc) == IF sc.bootCount = 0 THEN 1 ELSE sc.bootCount

\* setup(), from reset or deep-sleep wake-up to the battery check; the
\* RP2040 build first restores its counters from the scratch registers
WakeUp ==
    /\ pc = "boot"
    \* RAM is initialised by the restart
    /\ uplinkScheduler' = SchedConstructed
    /\ begins' = 0
    /\ returned' = << >>
    /\ node' = NodeReset
    /\ actState' = "RADIOLIB_ERR_NONE"
    /\ state' = 0
    /\ isConfirmed' = FALSE
    /\ fsmStage' = "E_SENSORDATA"
    /\ uplinkReq' = 0
    /\ fPort' = 1
    /\ uplink' = NoUplink
    /\ downlink' = NoDownlink
    /\ exchanges' = 0
    /\ cmds' = 0
    /\ dueAtBegin' = 0
    /\ sensorPorts' = << >>
    /\ prefs' = LoadPrefs(preferences)
    /\ LET rp == platform = "RP2040"
           restored == IF rp THEN RestoredBootCount(scratch) ELSE bootCount
       IN /\ events' = IF restored = 1 THEN {"first boot"} ELSE {}
          /\ IF restored = 1
             THEN /\ rtcTimeSource' = "E_UNSYNCHED"
                  /\ appStatusUplinkPending' = FALSE
                  /\ lwStatusUplinkPending' = FALSE
             ELSE UNCHANGED << rtcTimeSource, appStatusUplinkPending,
                               lwStatusUplinkPending >>
          /\ bootCount' = ToUint16(restored + 1)
          /\ bootCountSinceUnsuccessfulJoin' =
                 IF rp THEN scratch.failed ELSE bootCountSinceUnsuccessfulJoin
          /\ rtcLastClockSync' = IF rp THEN scratch.lastSync ELSE rtcLastClockSync
          /\ \E v \in BootVoltages :
                /\ setupVoltage' = v
                /\ haltMsg' = ""
                /\ IF BatteryLow(v, BATTERY_LOW)
                   THEN \* sleepDuration() reads the battery voltage again
                        \E again \in Voltages, tm \in Clocks : PlannedSleep(prefs', again, tm)
                   ELSE /\ pc' = "radio"
                        /\ sleepSeconds' = ToUint32(0)
                        /\ sleepCall' = NoSleepCall
                        /\ longSleep' = IF rp THEN scratch.longSleep ELSE longSleep
    /\ UNCHANGED << UplinkSchedule, console, build, modByZero, LWsession, flash,
                    appStatusUplinkInterval, failedJoins, episodes, uplinkWait >>

\* state = radio.begin(); debug(state != RADIOLIB_ERR_NONE, ..., true)
RadioBegin ==
    /\ pc = "radio"
    /\ \E ok \in BOOLEAN :
          IF Debug(~ok, FreezeOnRadioFail)
          THEN Halt("Initalise radio failed")
          ELSE pc' = "beginOTAA" /\ UNCHANGED haltMsg
    /\ UNCHANGED << UplinkSchedule, console, build, uplink, downlink, setupVoltage, schedVars, retained, flash, prefs, hist, ghost,
                    appStatusUplinkInterval, node, actState, state, isConfirmed,
                    fsmStage, uplinkReq, fPort, sleepSeconds >>

\* lwActivate(): node.beginOTAA(), store.begin(), store.isKey("nonces")
ActBeginOTAA ==
    /\ pc = "beginOTAA"
    /\ \E ok \in BOOLEAN :
          /\ actState' = IF ok THEN "RADIOLIB_ERR_NONE" ELSE "RADIOLIB_ERR"
          /\ IF Debug(~ok, FreezeOnNodeFail)
             THEN Halt("Initialise node failed")
             ELSE /\ pc' = IF hasNonces THEN "restore" ELSE "join"
                  /\ UNCHANGED haltMsg
    /\ UNCHANGED << UplinkSchedule, console, build, uplink, downlink, setupVoltage, schedVars, retained, flash, prefs, hist, ghost,
                    appStatusUplinkInterval, node, state, isConfirmed,
                    fsmStage, uplinkReq, fPort, sleepSeconds >>

\* the messages debug() logs in lwActivate() for the given failures
RestoreMessages(noncesFail, sessionFail) ==
    (IF noncesFail THEN {"Restoring nonces buffer failed"} ELSE {}) \cup
    (IF sessionFail THEN {"Restoring session buffer failed"} ELSE {})

\* lwActivate(): setBufferNonces(), setBufferSession(LWsession); a session
\* is restored only along with the nonces it belongs to
ActRestore ==
    /\ pc = "restore"
    /\ \E noncesOk \in BOOLEAN :
       \E ok \in (IF LWsession.valid /\ noncesOk THEN BOOLEAN ELSE {FALSE}) :
          /\ actState' = IF ok THEN "RADIOLIB_ERR_NONE" ELSE "RADIOLIB_ERR"
          /\ events' = events \cup {"setBufferNonces", "setBufferSession"}
                          \cup RestoreMessages(~noncesOk, ~ok /\ bootCount > 1)
          /\ IF Debug(~ok /\ bootCount > 1, FreezeOnRestoreFail)
             THEN Halt("Restoring session buffer failed") /\ UNCHANGED node
             ELSE /\ UNCHANGED haltMsg
                  /\ IF ok
                     THEN /\ node' = [node EXCEPT !.fCntUp = LWsession.fCntUp,
                                                  !.devNonce = nonces]
                          /\ pc' = "activateRestored"
                     ELSE /\ node' = [node EXCEPT
                                        !.devNonce = IF noncesOk THEN nonces ELSE @]
                          /\ pc' = "join"
    /\ UNCHANGED << UplinkSchedule, console, build, uplink, downlink, setupVoltage, schedVars, retained, flash, prefs, hist,
                    appStatusUplinkInterval, state, isConfirmed,
                    fsmStage, uplinkReq, fPort, sleepSeconds,
                    sleepCall, failedJoins, episodes, uplinkWait >>

\* lwActivate(): activateOTAA() of a restored session, store.end(), return
ActActivateRestored ==
    /\ pc = "activateRestored"
    /\ \E ok \in BOOLEAN :
          /\ actState' = IF ok THEN "RADIOLIB_LORAWAN_SESSION_RESTORED"
                               ELSE "RADIOLIB_ERR"
          /\ IF Debug(~ok, FreezeOnActivateRestoredFail)
             THEN Halt("Failed to activate restored session") /\ UNCHANGED node
             ELSE /\ UNCHANGED haltMsg
                  /\ node' = [node EXCEPT !.active = ok]
                  /\ pc' = "loopinit"
    /\ events' = events \cup {"activateOTAA"}
    /\ UNCHANGED << UplinkSchedule, console, build, uplink, downlink, setupVoltage, schedVars, retained, flash, prefs, hist,
                    appStatusUplinkInterval, state, isConfirmed,
                    fsmStage, uplinkReq, fPort, sleepSeconds,
                    sleepCall, failedJoins, episodes, uplinkWait >>

\* the statement that follows activateOTAA() in the join loop
AfterJoinAttemptSkipSave == "joincheck"
AfterJoinAttempt == "nonces"

\* node.getBufferNonces()
GetBufferNonces(n) == n.devNonce

\* lwActivate(): state = node.activateOTAA() in the join loop
ActJoin ==
    /\ pc = "join"
    /\ \E ok \in BOOLEAN :
          /\ actState' = IF ok THEN "RADIOLIB_LORAWAN_NEW_SESSION"
                               ELSE "RADIOLIB_ERR"
          \* every join request uses up a DevNonce
          /\ node' = IF ok THEN [node EXCEPT !.active = TRUE, !.fCntUp = 0,
                                             !.devNonce = @ + 1]
                           ELSE [node EXCEPT !.devNonce = @ + 1]
    /\ events' = events \cup {"activateOTAA", "join"}
    /\ pc' = AfterJoinAttempt
    /\ UNCHANGED << UplinkSchedule, console, build, uplink, downlink, setupVoltage, schedVars, retained, flash, prefs, hist,
                    appStatusUplinkInterval, state, isConfirmed,
                    fsmStage, uplinkReq, fPort, haltMsg, sleepSeconds,
                    sleepCall, failedJoins, episodes, uplinkWait >>

\* lwActivate(): store.putBytes("nonces", ...)
ActSaveNonces ==
    /\ pc = "nonces"
    /\ hasNonces' = TRUE
    /\ nonces' = GetBufferNonces(node)
    /\ pc' = "joincheck"
    /\ UNCHANGED << UplinkSchedule, console, build, schedVars, retained, preferences, hist,
                    appStatusUplinkInterval, ram, ghost >>

\* gotoSleep(sleepForSeconds) in the join loop does not return: the loop
\* is not run a second time
AfterFailedJoinRetry == "join"
AfterFailedJoin == "sleep"

\* lwActivate(): the join failed: back off and sleep; or joined: reset the count
ActJoinResult ==
    /\ pc = "joincheck"
    /\ IF actState # "RADIOLIB_LORAWAN_NEW_SESSION"
       THEN /\ sleepSeconds' =
                 ToUint32(MinOf((bootCountSinceUnsuccessfulJoin + 1) * 60, 3 * 60))
            /\ bootCountSinceUnsuccessfulJoin' =
                 ToUint16(bootCountSinceUnsuccessfulJoin + 1)
            /\ failedJoins' = failedJoins + 1
            /\ pc' = AfterFailedJoin
       ELSE /\ bootCountSinceUnsuccessfulJoin' = 0
            /\ failedJoins' = 0
            /\ pc' = "loopinit"
            /\ UNCHANGED sleepSeconds
    /\ UNCHANGED << UplinkSchedule, console, build, uplink, downlink, setupVoltage, schedVars, bootCount, lwStatusUplinkPending,
                    appStatusUplinkPending, rtcLastClockSync, rtcTimeSource,
                    longSleep, LWsession, flash, prefs, hist, appStatusUplinkInterval,
                    node, actState, state, isConfirmed, fsmStage, uplinkReq,
                    fPort, haltMsg, events, sleepCall, episodes, uplinkWait >>

\* setup() after lwActivate(): DeviceTimeReq if the clock is unsynchronised or
\* stale, fsmStage, uplinkReq, uplinkScheduler.begin(bootCount)
LoopInit ==
    /\ pc = "loopinit"
    /\ \E stale \in BOOLEAN :
          node' = [node EXCEPT !.timeReq = (rtcLastClockSync = 0) \/ stale]
    /\ fsmStage' = "E_SENSORDATA"
    /\ uplinkReq' = 0
    /\ uplinkScheduler' = Begin(uplinkScheduler, UplinkSchedule, bootCount)
    /\ begins' = begins + 1
    /\ returned' = << >>
    /\ modByZero' = (modByZero \/ DivByZeroIn(UplinkSchedule, 1, Len(UplinkSchedule)))
    /\ dueAtBegin' = uplinkScheduler'.uplinks
    \* the voltage is not read after the battery level has been set
    /\ setupVoltage' = 0
    /\ pc' = "loop"
    /\ UNCHANGED << UplinkSchedule, console, build, uplink, downlink, retained, flash, prefs, appStatusUplinkInterval,
                    actState, state, isConfirmed, fPort, haltMsg, sleepSeconds,
                    exchanges, cmds, sensorPorts, ghost >>

\* node.timeUntilUplink() [ms]: nothing left to wait, and waits up to the one that
\* follows the longest uplink under a duty cycle of one percent
TimeUntilUplinkValues == {0, 1, 1000, 280000}

\* uint32_t delayMs * 1000: the microseconds of esp_sleep_enable_timer_wakeup()
TimerMicros(delayMs) ==
    LET low == (delayMs % 65536) * 1000
    IN [hi |-> ((delayMs \div 65536) * 1000 + low \div 65536) % 65536,
        lo |-> low % 65536]

\* delayMs of uplinkDelay()
UplinkDelayMsInterval(timeUntilUplink, uplinkInterval) == uplinkInterval * 1000
UplinkDelayMs(timeUntilUplink, uplinkInterval) ==
    LET minimumDelay == uplinkInterval * 1000
    IN IF timeUntilUplink > minimumDelay THEN timeUntilUplink ELSE minimumDelay

\* uplinkDelay(timeUntilUplink, uplinkInterval): light sleep on the timer (ESP32) or
\* delay() (RP2040); the result tells whether the wait covered timeUntilUplink
UplinkDelay(plat, timeUntilUplink, uplinkInterval) ==
    LET delayMs == UplinkDelayMs(timeUntilUplink, uplinkInterval)
        covered == IF plat = "ESP32"
                   THEN ~U32Less(TimerMicros(delayMs), ToUint32(timeUntilUplink * 1000))
                   ELSE delayMs >= timeUntilUplink
    IN IF covered THEN "waited" ELSE "short"

\* loop body up to the sendReceive() call
IterPrepare ==
    /\ pc = "loop"
    /\ LET fCntUp == node.fCntUp
           lw == LwStatusDue(prefs.lw_stat_interval, fCntUp)
           lwSet == lw.due
           appSet == appStatusUplinkInterval # 0 /\ fCntUp % appStatusUplinkInterval = 0
           g == GetNextPort(uplinkScheduler, UplinkSchedule)
       IN /\ isConfirmed' = LinkCheckDue(fCntUp)
          /\ node' = [node EXCEPT !.linkCheckReq = @ \/ LinkCheckDue(fCntUp)]
          /\ appStatusUplinkPending' = (appStatusUplinkPending \/ appSet)
          /\ modByZero' = (modByZero \/ lw.modByZero \/
                 (fsmStage = "E_SENSORDATA" /\
                  DivByZeroIn(UplinkSchedule, uplinkScheduler.index + 1, g.last)))
          /\ \E maxPayloadLen \in MaxPayloadLens :
             CASE fsmStage = "E_SENSORDATA" ->
                    /\ fPort' = g.port
                    /\ uplinkScheduler' = g.sched
                    /\ returned' = Append(returned, g.port)
                    /\ sensorPorts' = Append(sensorPorts, g.port)
                    /\ \E encoded \in EncodedLengths :
                          uplink' = [size |-> UplinkSize(encoded, maxPayloadLen),
                                     encoded |-> encoded, maxLen |-> maxPayloadLen]
                    /\ lwStatusUplinkPending' = (lwStatusUplinkPending \/ lwSet)
                    /\ UNCHANGED uplinkWait
               [] fsmStage = "E_RESPONSE" ->
                    /\ fPort' = ResponsePort(uplinkReq)
                    /\ \E encoded \in EncodeCfgUplink(fPort') :
                          uplink' = [size |-> encoded, encoded |-> encoded,
                                     maxLen |-> maxPayloadLen]
                    /\ \E timeUntilUplink \in TimeUntilUplinkValues :
                          uplinkWait' = UplinkDelay(platform, timeUntilUplink, 0)
                    /\ lwStatusUplinkPending' = (lwStatusUplinkPending \/ lwSet)
                    /\ UNCHANGED << uplinkScheduler, returned, sensorPorts >>
               [] fsmStage = "E_LWSTATUS" ->
                    /\ fPort' = CMD_GET_LW_STATUS
                    /\ \E encoded \in EncodeCfgUplink(fPort') :
                          uplink' = [size |-> encoded, encoded |-> encoded,
                                     maxLen |-> maxPayloadLen]
                    /\ \E timeUntilUplink \in TimeUntilUplinkValues :
                          uplinkWait' = UplinkDelay(platform, timeUntilUplink, 0)
                    /\ lwStatusUplinkPending' =
                           LwPendingInStatusIteration(lwStatusUplinkPending, lwSet)
                    /\ UNCHANGED << uplinkScheduler, returned, sensorPorts >>
               [] OTHER ->
                    /\ lwStatusUplinkPending' = (lwStatusUplinkPending \/ lwSet)
                    /\ UNCHANGED << fPort, uplink, uplinkScheduler, returned, sensorPorts,
                                    uplinkWait >>
    /\ pc' = "send"
    /\ UNCHANGED << UplinkSchedule, console, build, downlink, setupVoltage, begins, bootCount,
                    bootCountSinceUnsuccessfulJoin,
                    rtcLastClockSync, rtcTimeSource, longSleep, LWsession, flash, prefs,
                    appStatusUplinkInterval, actState, state, fsmStage,
                    uplinkReq, haltMsg, sleepSeconds, exchanges, cmds,
                    dueAtBegin, events, sleepCall, failedJoins, episodes >>

\* node.sendReceive(...), decoding of the downlink, DeviceTimeAns
SendReceive ==
    /\ pc = "send"
    /\ exchanges' = exchanges + 1
    /\ uplinkWait' = "none"
    \* uplinkSize is not read after the call
    /\ uplink' = NoUplink
    /\ \E result \in {"error", "errorAfterUplink", "noDownlink", "macOnly", "data"},
          dl \in Downlinks, timeAns \in BOOLEAN :
          LET received == result \in {"macOnly", "data"}
              dec == IF result = "data" /\ dl.fPort > 0
                     THEN DecodeDownlink(dl.fPort, dl.payload, prefs)
                     ELSE [cmd |-> 0, prefs |-> prefs]
              gotTime == GetMacDeviceTimeAns(node, timeAns /\ received)
          IN \* one representative downlink when none is delivered
             /\ (result # "data") => dl = CHOOSE d \in Downlinks : TRUE
             /\ timeAns => (received /\ node.timeReq)
             /\ dec.cmd # 0 => cmds < MaxCmdDownlinks
             /\ state' = CASE result \in {"error", "errorAfterUplink"} -> -1
                           [] result = "noDownlink" -> 0
                           [] OTHER -> 1
             /\ node' = [node EXCEPT
                           !.fCntUp = IF result = "error" THEN @ ELSE @ + 1,
                           !.timeReq = IF gotTime THEN FALSE ELSE @,
                           \* the request goes out with the uplink
                           !.linkCheckReq = IF result = "error" THEN @ ELSE FALSE]
             /\ downlink' = IF result = "data" THEN dl ELSE NoDownlink
             /\ uplinkReq' = UplinkReqAfter(uplinkReq, result = "data" /\ dl.fPort > 0,
                                            dec.cmd)
             /\ prefs' = dec.prefs
             /\ preferences' = IF result = "data" /\ dl.fPort > 0
                                THEN DecodeDownlinkStores(dl.fPort, dl.payload, preferences)
                                ELSE preferences
             /\ cmds' = IF dec.cmd # 0 THEN cmds + 1 ELSE cmds
             /\ IF gotTime
                THEN /\ rtcLastClockSync' = 1
                     /\ rtcTimeSource' = "E_LORA"
                ELSE UNCHANGED << rtcLastClockSync, rtcTimeSource >>
             /\ events' = IF timeAns THEN events \cup {"DeviceTimeAns"} ELSE events
    /\ IF Debug(state' < 0, FreezeOnSendReceiveFail)
       THEN Halt("Error in sendReceive")
       ELSE pc' = "trans" /\ UNCHANGED haltMsg
    /\ UNCHANGED << UplinkSchedule, console, build, setupVoltage, schedVars, bootCount,
                    bootCountSinceUnsuccessfulJoin,
                    lwStatusUplinkPending, appStatusUplinkPending, longSleep,
                    LWsession, hasNonces, nonces, appStatusUplinkInterval, actState,
                    isConfirmed, fsmStage, fPort, sleepSeconds,
                    dueAtBegin, sensorPorts, sleepCall, failedJoins, episodes >>

\* choice of the next stage; uplinkDelay() before the next sensor uplink
Transition ==
    /\ pc = "trans"
    /\ fsmStage' =
         LET chain == NextStage(uplinkReq, HasUplinks(uplinkScheduler),
                                lwStatusUplinkPending)
         IN IF chain = "E_DONE" THEN LastStage(appStatusUplinkPending) ELSE chain
    /\ pc' = IF fsmStage' = "E_DONE" THEN "save" ELSE "loop"
    /\ IF fsmStage' = "E_SENSORDATA"
       THEN \E timeUntilUplink \in TimeUntilUplinkValues :
               uplinkWait' = UplinkDelay(platform, timeUntilUplink, 0)
       ELSE UNCHANGED uplinkWait
    \* the downlink is not read after it has been decoded
    /\ downlink' = NoDownlink
    /\ UNCHANGED << UplinkSchedule, console, build, uplink, setupVoltage, schedVars, retained,
                    flash, prefs, hist, events, sleepCall, failedJoins, episodes,
                    appStatusUplinkInterval, node, actState, state, isConfirmed,
                    uplinkReq, fPort, haltMsg, sleepSeconds >>

\* node.getBufferSession()
GetBufferSessionEmpty(n) == NoSession
GetBufferSession(n) == [valid |-> n.active, fCntUp |-> n.fCntUp]

\* memcpy(LWsession, node.getBufferSession(), ...)
SaveSession ==
    /\ pc = "save"
    /\ LWsession' = GetBufferSession(node)
    /\ pc' = "gosleep"
    /\ UNCHANGED << UplinkSchedule, console, build, schedVars, bootCount, bootCountSinceUnsuccessfulJoin,
                    lwStatusUplinkPending, appStatusUplinkPending, rtcLastClockSync,
                    rtcTimeSource, longSleep, flash, hist, appStatusUplinkInterval,
                    ram, ghost >>

\* gotoSleep(sleepDuration(battery_weak)) at the end of setup()
GotoSleep ==
    /\ pc = "gosleep"
    /\ \E voltage \in Voltages, tm \in Clocks : PlannedSleep(prefs, voltage, tm)
    /\ UNCHANGED << UplinkSchedule, console, build, uplink, downlink, setupVoltage, schedVars, bootCount, bootCountSinceUnsuccessfulJoin,
                    lwStatusUplinkPending, appStatusUplinkPending, rtcLastClockSync,
                    rtcTimeSource, LWsession, flash, prefs, hist, appStatusUplinkInterval,
                    node, actState, state, isConfirmed, fsmStage, uplinkReq, fPort,
                    haltMsg, events, failedJoins, episodes, uplinkWait >>

Next ==
    \/ WakeUp
    \/ RadioBegin
    \/ ActBeginOTAA
    \/ ActRestore
    \/ ActActivateRestored
    \/ ActJoin
    \/ ActSaveNonces
    \/ ActJoinResult
    \/ LoopInit
    \/ IterPrepare
    \/ SendReceive
    \/ Transition
    \/ SaveSession
    \/ GotoSleep

Spec == Init /\ [][Next]_vars

\* the program runs on: no step of setup() is postponed forever
SpecFair == Spec /\ WF_vars(Next)

\* ------------------------------------------------------------------------
\* SpecJoin: wake episodes in a row, as long as no uplink loop was run
\* ------------------------------------------------------------------------

\* retained state and flash at the start of the chain: the first boot, a
\* later boot with a saved session, and a device that has failed to join
\* 65534 times in a row (it has booted at least as often)
JoinStarts ==
    { [bootCount |-> 1, failed |-> 0, hasNonces |-> FALSE, session |-> NoSession],
      [bootCount |-> 1, failed |-> 0, hasNonces |-> TRUE, session |-> NoSession],
      [bootCount |-> 2, failed |-> 0, hasNonces |-> TRUE,
       session |-> [valid |-> TRUE, fCntUp |-> 1]],
      [bootCount |-> 65535, failed |-> 65534, hasNonces |-> TRUE, session |-> NoSession] }

InitJoin ==
    /\ pc = "boot"
    /\ UplinkSchedule = ProgramSchedule
    /\ uplinkScheduler = SchedConstructed
    /\ begins = 0
    /\ returned = << >>
    /\ modByZero = FALSE
    /\ \E start \in JoinStarts :
          /\ bootCount = start.bootCount
          /\ bootCountSinceUnsuccessfulJoin = start.failed
          /\ failedJoins = start.failed
          /\ hasNonces = start.hasNonces
          /\ nonces = IF start.hasNonces THEN start.failed + 1 ELSE 0
          /\ LWsession = start.session
    /\ lwStatusUplinkPending = FALSE
    /\ appStatusUplinkPending = FALSE
    /\ rtcLastClockSync = 0
    /\ rtcTimeSource = IF bootCount = 1 THEN "E_GPS" ELSE "E_UNSYNCHED"
    /\ longSleep = FALSE
    /\ preferences = EmptyStore
    /\ prefs = PrefsZero
    /\ node = NodeReset
    /\ actState = "RADIOLIB_ERR_NONE"
    /\ state = 0
    /\ isConfirmed = FALSE
    /\ fsmStage = "E_SENSORDATA"
    /\ uplinkReq = 0
    /\ fPort = 1
    /\ uplink = NoUplink
    /\ downlink = NoDownlink
    /\ setupVoltage = 0
    /\ console = NoConsole
    /\ platform \in {"ESP32", "RP2040"}
    /\ scratch = IF platform = "RP2040"
                 THEN Scratch(bootCount, bootCountSinceUnsuccessfulJoin,
                              rtcLastClockSync, longSleep)
                 ELSE Scratch(0, 0, 0, FALSE)
    /\ haltMsg = ""
    /\ sleepSeconds = ToUint32(0)
    /\ appStatusUplinkInterval = 0
    /\ exchanges = 0
    /\ cmds = 0
    /\ dueAtBegin = 0
    /\ sensorPorts = << >>
    /\ events = {}
    /\ sleepCall = NoSleepCall
    /\ episodes = 1
    /\ uplinkWait = "none"

\* the timer ends the deep sleep and the program starts again at setup();
\* RTC RAM and flash keep their contents
WakeAgain ==
    /\ pc = "sleep"
    /\ platform = "ESP32"
    /\ exchanges = 0
    /\ episodes < MaxEpisodes
    /\ episodes' = episodes + 1
    /\ pc' = "boot"
    /\ UNCHANGED << UplinkSchedule, console, build, schedVars, retained, flash, ram, hist,
                    appStatusUplinkInterval, events, sleepCall, failedJoins, uplinkWait >>

\* what gotoSleep() of the RP2040 build stores in the scratch registers
SaveScratchNothing(sc, bc, failed, lastSync, ls) == sc
SaveScratch(sc, bc, failed, lastSync, ls) == Scratch(bc, failed, lastSync, ls)

\* gotoSleep() of the RP2040 build after pico_sleep() has returned: the
\* counters are stored in the scratch registers, then rp2040.restart()
PicoRestart ==
    /\ pc = "sleep"
    /\ platform = "RP2040"
    /\ exchanges = 0
    /\ episodes < MaxEpisodes
    /\ scratch' = SaveScratch(scratch, bootCount, bootCountSinceUnsuccessfulJoin,
                              rtcLastClockSync, longSleep)
    /\ episodes' = episodes + 1
    /\ pc' = "boot"
    /\ UNCHANGED << UplinkSchedule, console, platform, schedVars, retained, flash, ram, hist,
                    appStatusUplinkInterval, events, sleepCall, failedJoins, uplinkWait >>

NextJoin == Next \/ WakeAgain \/ PicoRestart

SpecJoin == InitJoin /\ [][NextJoin]_vars

\* ------------------------------------------------------------------------
\* SpecSleep: sleepDuration() over its inputs
\* ------------------------------------------------------------------------

\* values of sleep_interval and sleep_interval_long (uint16_t, 0...65535):
\* zero, below and at the floor, the defaults, above one hour, the maximum
PlannerIntervals == {0, 20, SLEEP_INTERVAL_MIN, SLEEP_INTERVAL, SLEEP_INTERVAL_LONG,
                     4000, 65535}

\* battery voltage readings [mV]: not measured, weak, at and above the threshold
PlannerVoltages == {0, 3400, BATTERY_WEAK, BATTERY_WEAK + 1}

\* local time: every minute of the hour, seconds at the ends and in the middle
PlannerClocks == [tm_min : 0..59, tm_sec : {0, 1, 30, 59}]

InitSleep ==
    /\ pc = "planner"
    /\ UplinkSchedule = ProgramSchedule
    /\ uplinkScheduler = SchedConstructed
    /\ begins = 0
    /\ returned = << >>
    /\ modByZero = FALSE
    /\ bootCount = 2
    /\ bootCountSinceUnsuccessfulJoin = 0
    /\ lwStatusUplinkPending = FALSE
    /\ appStatusUplinkPending = FALSE
    /\ rtcLastClockSync \in {0, 1}
    /\ rtcTimeSource = IF rtcLastClockSync = 0 THEN "E_UNSYNCHED" ELSE "E_LORA"
    /\ longSleep \in BOOLEAN
    /\ LWsession = NoSession
    /\ hasNonces = FALSE
    /\ nonces = 0
    /\ prefs \in [sleep_interval : PlannerIntervals,
                  sleep_interval_long : PlannerIntervals,
                  lw_stat_interval : {LW_STATUS_INTERVAL}]
    /\ preferences = StoreOf(prefs)
    /\ node = NodeReset
    /\ actState = "RADIOLIB_ERR_NONE"
    /\ state = 0
    /\ isConfirmed = FALSE
    /\ fsmStage = "E_DONE"
    /\ uplinkReq = 0
    /\ fPort = 1
    /\ uplink = NoUplink
    /\ downlink = NoDownlink
    /\ setupVoltage = 0
    /\ console = NoConsole
    /\ platform = "ESP32"
    /\ scratch = Scratch(0, 0, 0, FALSE)
    /\ haltMsg = ""
    /\ sleepSeconds = ToUint32(0)
    /\ appStatusUplinkInterval = 0
    /\ exchanges = 0
    /\ cmds = 0
    /\ dueAtBegin = 0
    /\ sensorPorts = << >>
    /\ events = {}
    /\ sleepCall = NoSleepCall
    /\ failedJoins = 0
    /\ episodes = 1
    /\ uplinkWait = "none"

\* sleepDuration(battery_weak) with the battery reading and the local time
\* of the call
SleepPlanner ==
    /\ pc = "planner"
    /\ \E voltage \in PlannerVoltages, tm \in PlannerClocks : PlannedSleep(prefs, voltage, tm)
    /\ UNCHANGED << UplinkSchedule, console, build, uplink, downlink, setupVoltage, schedVars, bootCount, bootCountSinceUnsuccessfulJoin,
                    lwStatusUplinkPending, appStatusUplinkPending, rtcLastClockSync,
                    rtcTimeSource, LWsession, flash, prefs, hist, appStatusUplinkInterval,
                    node, actState, state, isConfirmed, fsmStage, uplinkReq, fPort,
                    haltMsg, events, failedJoins, episodes, uplinkWait >>

NextSleep == SleepPlanner

SpecSleep == InitSleep /\ [][NextSleep]_vars

\* ------------------------------------------------------------------------
\* SpecCodec: the downlink and uplink formatters of the network console,
\* and the configuration uplinks of the device they decode
\* ------------------------------------------------------------------------

\* a 32-bit value is held as two 16-bit halves
U32(h, l) == [hi |-> h, lo |-> l]

\* value >> 24 in JavaScript: the operand is taken as a signed 32-bit integer
JsShiftRight24(e) == (IF e.hi >= 32768 THEN e.hi - 65536 ELSE e.hi) \div 256

\* function bytesToInt(bytes): little endian, i |= bytes[x] << (x * 8)
RECURSIVE BytesToInt(_)
BytesToInt(bytes) ==
    IF bytes = << >> THEN 0
    ELSE Head(bytes) + 256 * BytesToInt(Tail(bytes))

\* function bytesToIntBE(bytes): big endian,
\* i |= bytes[x] << ((bytes.length - 1 - x) * 8); the result is a signed
\* 32-bit integer, so the top bit of four bytes is the sign
RECURSIVE BytesToUint24BE(_)
BytesToUint24BE(bytes) ==
    IF bytes = << >> THEN 0
    ELSE bytes[Len(bytes)] + 256 * BytesToUint24BE(SubSeq(bytes, 1, Len(bytes) - 1))
BytesToIntBE(bytes) ==
    IF Len(bytes) < 4 THEN BytesToUint24BE(bytes)
    ELSE LET top == bytes[1] % 256
         IN ((IF top >= 128 THEN top - 256 ELSE top) * 16777216)
               + BytesToUint24BE(SubSeq(bytes, 2, 4))

\* Number.prototype.toString(16): the hexadecimal digits of the magnitude,
\* and a minus sign for a negative number
RECURSIVE HexDigits(_)
HexDigits(n) == IF n < 16 THEN << n >> ELSE Append(HexDigits(n \div 16), n % 16)
ToString16(n) ==
    IF n >= 0 THEN [neg |-> FALSE, digits |-> HexDigits(n)]
    ELSE IF n = -2147483647 - 1
         THEN [neg |-> TRUE, digits |-> << 8, 0, 0, 0, 0, 0, 0, 0 >>]
         ELSE [neg |-> TRUE, digits |-> HexDigits(-n)]

\* function encodeDownlink(input) of downlink_formatter.js; input is the
\* property of input.data that selects the command, and its value
EncodeDownlink(input) ==
    CASE input.key = "CMD_GET_DATETIME" -> [bytes |-> << 0 >>, fPort |-> CMD_GET_DATETIME]
      [] input.key = "CMD_GET_LW_CONFIG" -> [bytes |-> << 0 >>, fPort |-> CMD_GET_LW_CONFIG]
      [] input.key = "CMD_GET_LW_STATUS" -> [bytes |-> << 0 >>, fPort |-> CMD_GET_LW_STATUS]
      [] input.key = "sleep_interval" ->
            [bytes |-> << input.value.lo \div 256, input.value.lo % 256 >>,
             fPort |-> CMD_SET_SLEEP_INTERVAL]
      [] input.key = "sleep_interval_long" ->
            [bytes |-> << input.value.lo \div 256, input.value.lo % 256 >>,
             fPort |-> CMD_SET_SLEEP_INTERVAL_LONG]
      [] input.key = "lw_status_interval" ->
            [bytes |-> << input.value.lo >>, fPort |-> CMD_SET_LW_STATUS_INTERVAL]
      [] input.key = "epoch" ->
            [bytes |-> << JsShiftRight24(input.value), input.value.hi % 256,
                          input.value.lo \div 256, input.value.lo % 256 >>,
             fPort |-> CMD_SET_DATETIME]
      [] OTHER -> [bytes |-> << >>, fPort |-> 1]

\* function decodeDownlink(input) of downlink_formatter.js
DecodeDownlinkJs(bytes, port) ==
    CASE port \in {CMD_GET_DATETIME, CMD_GET_LW_CONFIG, CMD_GET_LW_STATUS} ->
            [key |-> "data", value |-> 0]
      [] port = CMD_SET_DATETIME ->
            [key |-> "unixtime", value |-> ToString16(BytesToIntBE(SubSeq(bytes, 1, 4)))]
      [] port = CMD_SET_SLEEP_INTERVAL ->
            [key |-> "sleep_interval", value |-> BytesToIntBE(bytes)]
      [] port = CMD_SET_SLEEP_INTERVAL_LONG ->
            [key |-> "sleep_interval_long", value |-> BytesToIntBE(bytes)]
      [] port = CMD_SET_LW_STATUS_INTERVAL ->
            [key |-> "lw_status_interval", value |-> BytesToInt(bytes)]
      [] OTHER -> [key |-> "errors", value |-> 0]

\* enum class E_TIME_SOURCE : uint8_t
TimeSourceCode(source) ==
    CASE source = "E_GPS" -> 0
      [] source = "E_RTC" -> 1
      [] source = "E_LORA" -> 2
      [] source = "E_UNSYNCHED" -> 4
      [] source = "E_SET" -> 8

\* rtc_source_code[bytes[0]] of uplink_formatter.js
RtcSourceCode(byte) ==
    CASE byte = 0 -> "GPS"
      [] byte = 1 -> "RTC"
      [] byte = 2 -> "LORA"
      [] byte = 3 -> "unsynched"
      [] byte = 4 -> "set (source unknown)"
      [] OTHER -> "undefined"

\* the payload of a configuration uplink, as encodeCfgUplink() of the device
\* builds it from the device's clock, preferences and battery voltage
CfgUplinkPayload(port, dev) ==
    CASE port = CMD_GET_DATETIME ->
            << dev.epoch.hi \div 256, dev.epoch.hi % 256,
               dev.epoch.lo \div 256, dev.epoch.lo % 256,
               TimeSourceCode(dev.source) >>
      [] port = CMD_GET_LW_CONFIG ->
            << dev.sleep_interval \div 256, dev.sleep_interval % 256,
               dev.sleep_interval_long \div 256, dev.sleep_interval_long % 256,
               dev.lw_stat_interval >>
      [] port = CMD_GET_LW_STATUS ->
            << dev.voltage \div 256, dev.voltage % 256,
               IF dev.longSleep THEN 1 ELSE 0 >>
      [] OTHER -> << >>

\* function decoder(bytes, port) of uplink_formatter.js, for the ports of
\* the configuration uplinks
Decoder(bytes, port) ==
    IF Len(bytes) = 1 THEN [key |-> "modbus", code |-> bytes[1]]
    ELSE CASE port = CMD_GET_DATETIME ->
                 [key |-> "datetime",
                  unixtime |-> BytesToIntBE(SubSeq(bytes, 1, 4)),
                  rtc_source |-> RtcSourceCode(bytes[5])]
           [] port = CMD_GET_LW_CONFIG ->
                 [key |-> "config",
                  sleep_interval |-> BytesToIntBE(SubSeq(bytes, 1, 2)),
                  sleep_interval_long |-> BytesToIntBE(SubSeq(bytes, 3, 4)),
                  lw_status_interval |-> BytesToInt(SubSeq(bytes, 5, 5))]
           [] port = CMD_GET_LW_STATUS ->
                 [key |-> "status",
                  ubatt_mv |-> BytesToInt(SubSeq(bytes, 1, 2)),
                  long_sleep |-> BytesToInt(SubSeq(bytes, 3, 3))]
           [] OTHER -> [key |-> "undefined"]

\* downlink parameters over their documented ranges: the ends, the byte
\* boundaries and the values of the examples
Intervals16 == {0, 1, 255, 256, 300, 600, 32767, 32768, 65535}
StatusIntervals8 == {0, 1, 127, 128, 255}
Epochs == { U32(h, l) : h \in {0, 1, 25939, 32767, 32768, 65535},
                        l \in {0, 1, 61696, 65535} }
Millivolts == {0, 255, 256, BATTERY_LOW, 3700, 4200, 65535}
TimeSources == {"E_GPS", "E_RTC", "E_LORA", "E_UNSYNCHED", "E_SET"}

DownlinkInputs ==
    { [key |-> k, value |-> U32(0, 0)] :
         k \in {"CMD_GET_DATETIME", "CMD_GET_LW_CONFIG", "CMD_GET_LW_STATUS"} }
    \cup { [key |-> k, value |-> U32(0, v)] :
              k \in {"sleep_interval", "sleep_interval_long"}, v \in Intervals16 }
    \cup { [key |-> "lw_status_interval", value |-> U32(0, v)] : v \in StatusIntervals8 }
    \cup { [key |-> "epoch", value |-> e] : e \in Epochs }

\* device states a configuration uplink reports
Devices ==
    [epoch : Epochs, source : TimeSources,
     sleep_interval : {SLEEP_INTERVAL}, sleep_interval_long : {SLEEP_INTERVAL_LONG},
     lw_stat_interval : {LW_STATUS_INTERVAL}, voltage : {3700}, longSleep : {FALSE}]
    \cup
    [epoch : {U32(1, 0)}, source : {"E_LORA"},
     sleep_interval : {0, 300, 65535}, sleep_interval_long : {0, 600, 65535},
     lw_stat_interval : {0, 255}, voltage : Millivolts, longSleep : BOOLEAN]

UplinkInputs ==
    { [key |-> "uplink", port |-> port, dev |-> dev] :
         port \in {CMD_GET_DATETIME, CMD_GET_LW_CONFIG, CMD_GET_LW_STATUS},
         dev \in Devices }

InitCodec ==
    /\ \/ pc = "encodeDownlink" /\ \E input \in DownlinkInputs :
             console = [NoConsole EXCEPT !.input = input]
       \/ pc = "encodeCfgUplink" /\ \E input \in UplinkInputs :
             console = [NoConsole EXCEPT !.input = input]
    /\ UplinkSchedule = ProgramSchedule
    /\ uplinkScheduler = SchedConstructed
    /\ begins = 0
    /\ returned = << >>
    /\ modByZero = FALSE
    /\ bootCount = 2
    /\ bootCountSinceUnsuccessfulJoin = 0
    /\ lwStatusUplinkPending = FALSE
    /\ appStatusUplinkPending = FALSE
    /\ rtcLastClockSync = 0
    /\ rtcTimeSource = "E_UNSYNCHED"
    /\ longSleep = FALSE
    /\ LWsession = NoSession
    /\ hasNonces = FALSE
    /\ nonces = 0
    /\ preferences = EmptyStore
    /\ prefs = DefaultPrefs
    /\ node = NodeReset
    /\ actState = "RADIOLIB_ERR_NONE"
    /\ state = 0
    /\ isConfirmed = FALSE
    /\ fsmStage = "E_DONE"
    /\ uplinkReq = 0
    /\ fPort = 1
    /\ uplink = NoUplink
    /\ downlink = NoDownlink
    /\ setupVoltage = 0
    /\ platform = "ESP32"
    /\ scratch = Scratch(0, 0, 0, FALSE)
    /\ haltMsg = ""
    /\ sleepSeconds = ToUint32(0)
    /\ appStatusUplinkInterval = 0
    /\ exchanges = 0
    /\ cmds = 0
    /\ dueAtBegin = 0
    /\ sensorPorts = << >>
    /\ events = {}
    /\ sleepCall = NoSleepCall
    /\ failedJoins = 0
    /\ episodes = 1
    /\ uplinkWait = "none"

codecRest == << UplinkSchedule, schedVars, retained, build, flash, ram, hist,
               appStatusUplinkInterval, ghost >>

\* the console encodes a downlink
ConsoleEncodeDownlink ==
    /\ pc = "encodeDownlink"
    /\ LET e == EncodeDownlink(console.input)
       IN console' = [console EXCEPT !.bytes = e.bytes, !.fPort = e.fPort]
    /\ pc' = "decodeDownlink"
    /\ UNCHANGED codecRest

\* the console decodes the bytes and the fPort of the downlink
ConsoleDecodeDownlink ==
    /\ pc = "decodeDownlink"
    /\ console' = [console EXCEPT !.output = DecodeDownlinkJs(console.bytes, console.fPort)]
    /\ pc' = "decodedDownlink"
    /\ UNCHANGED codecRest

\* the device encodes a configuration uplink
DeviceEncodeCfgUplink ==
    /\ pc = "encodeCfgUplink"
    /\ console' = [console EXCEPT
                     !.bytes = CfgUplinkPayload(console.input.port, console.input.dev),
                     !.fPort = console.input.port]
    /\ pc' = "decodeUplink"
    /\ UNCHANGED codecRest

\* the console decodes the uplink
ConsoleDecodeUplink ==
    /\ pc = "decodeUplink"
    /\ console' = [console EXCEPT !.output = Decoder(console.bytes, console.fPort)]
    /\ pc' = "decodedUplink"
    /\ UNCHANGED codecRest

NextCodec ==
    \/ ConsoleEncodeDownlink
    \/ ConsoleDecodeDownlink
    \/ DeviceEncodeCfgUplink
    \/ ConsoleDecodeUplink

SpecCodec == InitCodec /\ [][NextCodec]_vars

\* ------------------------------------------------------------------------
\* Properties of the scheduler (checked under SpecSched)
\* ------------------------------------------------------------------------

\* "due" as the data model states it: multiplier != 0 and cycle mod multiplier == 0
RowDue(row, c) == row.mult # 0 /\ c % row.mult = 0

\* ports of the due rows among the first n rows, in table order
RECURSIVE ExpectedPorts(_, _, _)
ExpectedPorts(table, c, n) ==
    IF n = 0 THEN << >>
    ELSE IF RowDue(table[n], c)
         THEN Append(ExpectedPorts(table, c, n - 1), table[n].port)
         ELSE ExpectedPorts(table, c, n - 1)

Expected == ExpectedPorts(UplinkSchedule, uplinkScheduler.cycle, Len(UplinkSchedule))

\* due rows that getNextPort() has not passed yet
Undispensed ==
    {r \in 1..Len(UplinkSchedule) :
        r > uplinkScheduler.index /\ RowDue(UplinkSchedule[r], uplinkScheduler.cycle)}

\* C4: on a scheduler constructed and begun once, the calls of getNextPort()
\* made while hasUplinks() holds return exactly the ports of the due rows,
\* each once and in table order: every value returned so far is the port of
\* the due row of the same rank, and hasUplinks() is false exactly when all
\* of them have been returned.
C4_ExactlyDuePorts ==
    (pc = "sched" /\ begins = 1) =>
        /\ \A i \in 1..Len(returned) :
              i <= Len(Expected) => returned[i] = Expected[i]
        /\ HasUplinks(uplinkScheduler) <=> Len(returned) < Len(Expected)

C4_Witness ==
    /\ pc = "sched" /\ begins = 1
    /\ Len(Expected) = 2
    /\ returned = Expected
    /\ ~HasUplinks(uplinkScheduler)

\* C5 (as claimed): right after begin(cycle), whatever was called before,
\* the cursor is at the first row and the remaining count is the number of
\* rows due in that cycle.
C5_BeginResets ==
    (pc = "sched" /\ begins >= 1 /\ returned = << >>) =>
        /\ uplinkScheduler.index = 0
        /\ uplinkScheduler.uplinks = Len(Expected)

\* C6: after one begin() and any number of getNextPort() calls, hasUplinks()
\* holds iff a due row is still undispensed, iff the next getNextPort()
\* returns a non-zero port; the remaining count is the number of undispensed
\* due rows (it never wraps below zero).
C6_HasUplinksIffRemaining ==
    (pc = "sched" /\ begins = 1) =>
        /\ HasUplinks(uplinkScheduler) <=> Undispensed # {}
        /\ HasUplinks(uplinkScheduler) <=>
              GetNextPort(uplinkScheduler, UplinkSchedule).port # 0
        /\ uplinkScheduler.uplinks = Cardinality(Undispensed)

C6_Witness ==
    /\ pc = "sched" /\ begins = 1
    /\ Len(returned) = 1
    /\ Cardinality(Undispensed) = 1
    /\ HasUplinks(uplinkScheduler)

\* C7: a getNextPort() call made when no due row is left returns 0 and
\* leaves uplinks, index and cycle unchanged.
C7_ExhaustedIsNoOp ==
    [][ (pc = "sched" /\ begins >= 1 /\ Undispensed = {}
            /\ Len(returned') = Len(returned) + 1)
        => (returned'[Len(returned')] = 0 /\ uplinkScheduler' = uplinkScheduler) ]_vars

C7_Witness ==
    /\ pc = "sched"
    /\ Len(Expected) >= 1
    /\ Len(returned) = Len(Expected) + 1
    /\ returned[Len(returned)] = 0
    /\ Undispensed = {}

\* C8: a row with multiplier 0 is never counted by begin() (the count added
\* by begin is the number of rows with a non-zero multiplier dividing the
\* cycle), a port returned by getNextPort() comes from a row with a non-zero
\* multiplier, and no due check evaluates a modulo by zero.
C8_ZeroMultNeverDue ==
    /\ [](pc = "sched" => ~modByZero)
    /\ [](pc = "sched" /\ returned # << >> /\ returned[Len(returned)] # 0
            => /\ uplinkScheduler.index \in 1..Len(UplinkSchedule)
               /\ UplinkSchedule[uplinkScheduler.index].mult # 0)
    /\ [][ (pc = "sched" /\ begins' = begins + 1)
            => uplinkScheduler'.uplinks =
                 ToUint8(uplinkScheduler.uplinks + Cardinality(
                    {r \in 1..Len(UplinkSchedule) :
                        /\ UplinkSchedule[r].mult # 0
                        /\ uplinkScheduler'.cycle % UplinkSchedule[r].mult = 0})) ]_vars

C8_Witness ==
    /\ pc = "sched" /\ begins >= 1
    /\ uplinkScheduler.cycle = 0
    /\ UplinkSchedule[1].mult = 0
    /\ UplinkSchedule[2].mult # 0
    /\ returned = << UplinkSchedule[2].port, 0 >>

\* C9: the values returned after begin(cycle) are a function of the table
\* and the cycle alone, in every run on the object (also one that follows
\* an earlier run): the i-th value is the port of the i-th due row, or 0
\* past the last one.  For the table {(1,1),(2,3)}, cycle 3 yields 1, 2 and
\* cycle 2 yields 1.
C9_Deterministic ==
    pc = "sched" =>
        /\ \A i \in 1..Len(returned) :
              returned[i] = IF i <= Len(Expected) THEN Expected[i] ELSE 0
        /\ (UplinkSchedule = ProgramSchedule /\ Len(returned) >= 2) =>
              /\ uplinkScheduler.cycle = 3
                    => (returned[1] = 1 /\ returned[2] = 2)
              /\ uplinkScheduler.cycle = 2
                    => (returned[1] = 1 /\ returned[2] = 0)

C9_Witness ==
    /\ pc = "sched" /\ begins = 2
    /\ UplinkSchedule = ProgramSchedule
    /\ uplinkScheduler.cycle = 3
    /\ returned = << 1, 2, 0 >>

\* ------------------------------------------------------------------------
\* Properties of the wake-cycle state machine (checked under Spec / SpecFair)
\* ------------------------------------------------------------------------

\* number of rows due in the cycle the scheduler was begun with
DueCount ==
    Cardinality({r \in 1..Len(UplinkSchedule) :
                    RowDue(UplinkSchedule[r], uplinkScheduler.cycle)})

\* C1: every send/receive exchange is followed by the choice of the next
\* stage, in strict priority order: RESPONSE if the downlink of this exchange
\* decoded to a non-zero command id (an exchange without downlink leaves the
\* id 0), else SENSOR_DATA if the scheduler still has uplinks, else LW_STATUS
\* if the status flag is pending, else DONE; the stage changes nowhere else.
C1_TransitionPriority ==
    [][ /\ pc = "send" => (pc' = "trans" /\ (state' <= 0 => uplinkReq' = 0))
        /\ pc = "trans" =>
              fsmStage' = IF uplinkReq # 0 THEN "E_RESPONSE"
                          ELSE IF uplinkScheduler.uplinks > 0 THEN "E_SENSORDATA"
                          ELSE IF lwStatusUplinkPending THEN "E_LWSTATUS"
                          ELSE "E_DONE"
        /\ fsmStage' # fsmStage => pc = "trans" ]_vars

C1_Witness ==
    /\ pc = "loop"
    /\ fsmStage = "E_RESPONSE"
    /\ exchanges = 1
    /\ HasUplinks(uplinkScheduler)
    /\ lwStatusUplinkPending

\* C2 (as claimed): the number of exchanges of an episode never exceeds the
\* number of ports due in this cycle plus 2.
C2_BoundDuePlusTwo == exchanges <= DueCount + 2

\* C2 (amended): the number of exchanges of an episode never exceeds the
\* number of ports the scheduler counts as due in this cycle, plus 2, plus 2
\* for every exchange whose downlink decoded to a non-zero command id.
C2_BoundWithCommands == exchanges <= DueCount + 2 + 2 * cmds

C2_Witness ==
    /\ pc = "save"
    /\ cmds = 2
    /\ DueCount = 0
    /\ exchanges = DueCount + 2 + 2 * cmds

C10_DueByBootCount ==
    pc = "save" =>
        SelectSeq(sensorPorts, LAMBDA q : q # 0) =
            ExpectedPorts(UplinkSchedule, bootCount, Len(UplinkSchedule))

\* ------------------------------------------------------------------------
\* Properties of the sleep planner (checked under SpecSleep)
\* ------------------------------------------------------------------------

\* sleepDuration() has returned
Returned == pc = "sleep" /\ sleepCall.called

\* seconds from the full hour to the local time of the call
SinceHour == sleepCall.tm.tm_min * 60 + sleepCall.tm.tm_sec

\* (a + x) mod b for a uint32_t a, 0 <= x < 65536 and 0 < b < 65536
U32PlusMod(a, x, b) == (((a.hi % b) * (65536 % b)) + (a.lo % b) + (x % b)) % b

\* C11: every value returned by sleepDuration(), for every pair of
\* intervals, battery reading, clock-sync state and clock time, is at least
\* SLEEP_INTERVAL_MIN.
C11_SleepFloor ==
    Returned => ~U32Less(sleepSeconds, ToUint32(SLEEP_INTERVAL_MIN))

C11_Witness ==
    /\ Returned
    /\ rtcLastClockSync # 0
    /\ sleepCall.base = SLEEP_INTERVAL_LONG
    /\ sleepCall.tm = [tm_min |-> 59, tm_sec |-> 59]
    /\ sleepSeconds = ToUint32(SLEEP_INTERVAL_MIN)

\* C12 (as claimed): every value returned by sleepDuration() is at most the
\* base interval it selected.
C12_AtMostBase ==
    Returned => ~U32Less(ToUint32(sleepCall.base), sleepSeconds)

\* C13: sleepDuration() selects sleep_interval_long and sets longSleep
\* exactly when the voltage read is non-zero and at most the weak threshold;
\* otherwise it selects sleep_interval and clears longSleep, whatever the
\* flag was before; without clock sync the selected interval, raised to the
\* floor, is the value returned.
C13_LongSleepSelection ==
    sleepCall.called =>
        LET weak == sleepCall.voltage # 0 /\ sleepCall.voltage <= BATTERY_WEAK
        IN /\ longSleep = weak
           /\ sleepCall.base = IF weak THEN prefs.sleep_interval_long
                                       ELSE prefs.sleep_interval
           /\ (Returned /\ rtcLastClockSync = 0) =>
                 sleepSeconds = ToUint32(IF sleepCall.base < SLEEP_INTERVAL_MIN
                                         THEN SLEEP_INTERVAL_MIN ELSE sleepCall.base)

C13_Witness ==
    /\ Returned
    /\ sleepCall.voltage = 0
    /\ sleepCall.longSleepBefore
    /\ ~longSleep
    /\ prefs.sleep_interval = SLEEP_INTERVAL
    /\ prefs.sleep_interval_long = SLEEP_INTERVAL_LONG
    /\ rtcLastClockSync = 0
    /\ sleepSeconds = ToUint32(SLEEP_INTERVAL)

\* C14 (as claimed): with a synchronised clock and a selected interval other
\* than 0, the value d returned is the floor SLEEP_INTERVAL_MIN, or
\* minute * 60 + second + d is a multiple of the selected interval.
C14_AlignedOrFloor ==
    (Returned /\ rtcLastClockSync # 0 /\ sleepCall.base # 0) =>
        \/ sleepSeconds = ToUint32(SLEEP_INTERVAL_MIN)
        \/ U32PlusMod(sleepSeconds, SinceHour, sleepCall.base) = 0

\* C15 (as claimed): sleepDuration() returns a value and evaluates no modulo
\* by zero, for all intervals 0...65535 and every clock-sync state.
C15_NoModuloByZero ==
    sleepCall.called => (~sleepCall.modByZero /\ pc = "sleep")

\* ------------------------------------------------------------------------
\* Properties of the session store (checked under Spec / SpecJoin)
\* ------------------------------------------------------------------------

\* the episode has made a join attempt (activateOTAA() in the join loop)
JoinAttempted == "join" \in events

\* C16: once a join attempt has been made, and before anything but the
\* write itself happens (the sleep after a failure, the uplink loop after a
\* success), the stored nonces are those of the node, which account for the
\* join request of this attempt.
C16_NoncesSavedAfterJoin ==
    (JoinAttempted /\ pc # "nonces") =>
        /\ hasNonces
        /\ nonces = node.devNonce
        /\ node.devNonce >= 1

C16_Witness ==
    /\ pc = "sleep"
    /\ JoinAttempted
    /\ actState = "RADIOLIB_ERR"
    /\ "setBufferNonces" \in events
    /\ nonces = 2

\* C17 (as claimed), for an episode of one exchange: if that exchange
\* failed, the session save leaves the persisted session bytes unchanged.
C17_SavedOnlyAfterSuccess ==
    [][ (pc = "save" /\ exchanges = 1 /\ state < 0) => LWsession' = LWsession ]_vars

\* C17 (amended): LWsession is written only by the save that follows the
\* uplink loop, with the session buffer of the node, whatever the exchanges
\* returned; before the loop is over (battery low, failed join, halt) it is
\* not written.  When nonces are stored, setBufferSession(LWsession) has
\* been called before the first network activity (activateOTAA, sendReceive)
\* of the episode.
C17_SavedAfterLoop ==
    /\ [][ IF pc = "save"
           THEN LWsession' = [valid |-> node.active, fCntUp |-> node.fCntUp]
           ELSE LWsession' = LWsession ]_vars
    /\ []((pc \in {"join", "activateRestored"} /\ hasNonces)
             => "setBufferSession" \in events)
    /\ []((("activateOTAA" \in events) \/ exchanges > 0)
             => pc \notin {"boot", "radio", "beginOTAA", "restore"})

C17_Witness ==
    /\ pc = "gosleep"
    /\ exchanges = 1
    /\ state < 0
    /\ JoinAttempted
    /\ "setBufferSession" \in events
    /\ LWsession = [valid |-> TRUE, fCntUp |-> 0]

\* C18 (as claimed): without stored nonces lwActivate() joins afresh; a
\* failed session restore leads to a fresh join and never halts; the
\* restore failure is reported only when this is not the first boot.
C18_RestoreFallback ==
    /\ [][ (pc = "beginOTAA" /\ ~hasNonces /\ pc' # "halt") => pc' = "join" ]_vars
    /\ [][ (pc = "restore" /\ actState' # "RADIOLIB_ERR_NONE") => pc' = "join" ]_vars
    /\ []("Restoring session buffer failed" \in events => "first boot" \notin events)

\* C19 (as claimed): after the n-th failed join attempt in a row the device
\* sleeps for min(n * 60, 180) seconds and the retained counter has counted
\* every failed attempt (as far as 16 bits hold it); after a successful join
\* the counter is 0.
C19_JoinBackoff ==
    /\ bootCountSinceUnsuccessfulJoin = ToUint16(failedJoins)
    /\ (pc = "sleep" /\ JoinAttempted /\ actState # "RADIOLIB_LORAWAN_NEW_SESSION") =>
          /\ failedJoins >= 1
          /\ sleepSeconds = ToUint32(MinOf(failedJoins * 60, 180))
    /\ (pc \notin {"nonces", "joincheck"} /\ JoinAttempted
            /\ actState = "RADIOLIB_LORAWAN_NEW_SESSION") =>
          bootCountSinceUnsuccessfulJoin = 0

\* ------------------------------------------------------------------------
\* Properties of a failed exchange (checked under Spec)
\* ------------------------------------------------------------------------

\* C20: an exchange that fails or returns no downlink decodes nothing (the
\* command id is 0, preferences and clock state are untouched), does not
\* stop the loop and does not move the scheduler back; the next stage is
\* chosen by the transition rules, which do not look at the result, so it
\* is not RESPONSE; no port is sent twice in an episode.
C20_FailedExchange ==
    /\ [][ (pc = "send" /\ state' <= 0) =>
             /\ uplinkReq' = 0
             /\ prefs' = prefs
             /\ cmds' = cmds
             /\ rtcLastClockSync' = rtcLastClockSync
             /\ rtcTimeSource' = rtcTimeSource
             /\ uplinkScheduler' = uplinkScheduler
             /\ pc' = "trans" ]_vars
    /\ [][ (pc = "trans" /\ state <= 0) =>
             /\ uplinkScheduler' = uplinkScheduler
             /\ fsmStage' = IF uplinkScheduler.uplinks > 0 THEN "E_SENSORDATA"
                            ELSE IF lwStatusUplinkPending THEN "E_LWSTATUS"
                            ELSE "E_DONE" ]_vars
    /\ [](\A i, j \in 1..Len(sensorPorts) :
             (i < j /\ sensorPorts[i] # 0) => sensorPorts[i] # sensorPorts[j])

C20_Witness ==
    /\ pc = "send"
    /\ exchanges = 1
    /\ state < 0
    /\ fsmStage = "E_SENSORDATA"
    /\ sensorPorts = << 1, 2 >>

\* ------------------------------------------------------------------------
\* Properties of the uplink loop (checked under Spec)
\* ------------------------------------------------------------------------

\* C21: the status-uplink-pending flag rises only in the preparation of an
\* iteration, and only when the status interval is not zero and the uplink
\* frame counter read in that iteration is a multiple of it; with the
\* interval at zero the flag never rises, and no modulo by zero is evaluated.
C21_StatusFlagSet ==
    /\ [][ (~lwStatusUplinkPending /\ lwStatusUplinkPending') =>
             /\ pc = "loop"
             /\ prefs.lw_stat_interval # 0
             /\ node.fCntUp % prefs.lw_stat_interval = 0 ]_vars
    /\ [](~modByZero)

C21_Witness ==
    /\ pc = "send"
    /\ "first boot" \in events
    /\ exchanges = 0
    /\ prefs.lw_stat_interval = 2
    /\ node.fCntUp = 0
    /\ lwStatusUplinkPending

C24_NoWriteAfterSleep ==
    [][ pc = "sleep" => UNCHANGED << retained, scratch, flash, prefs >> ]_vars

\* C24 (amended): on the ESP32 build nothing is written to RTC RAM or flash
\* once the sleep has started. On the RP2040 build the session bytes and
\* the flags kept in uninitialised RAM are written before the sleep, and the
\* boot count, the failed-join count, the last clock synchronisation and
\* the long-sleep flag are stored in the scratch registers after the sleep,
\* right before the restart, and at no other time.
C24_WritesBeforeSleepOrRestart ==
    /\ [][ (pc = "sleep" /\ platform = "ESP32") =>
             UNCHANGED << retained, scratch, flash, prefs >> ]_vars
    /\ [][ (pc = "sleep" /\ platform = "RP2040") =>
             /\ UNCHANGED << LWsession, rtcTimeSource, lwStatusUplinkPending,
                             appStatusUplinkPending, flash, prefs >>
             /\ scratch' = Scratch(bootCount, bootCountSinceUnsuccessfulJoin,
                                   rtcLastClockSync, longSleep) ]_vars
    /\ [][ pc # "sleep" => scratch' = scratch ]_vars

C24_Witness ==
    /\ pc = "boot"
    /\ platform = "RP2040"
    /\ episodes = 2
    /\ bootCount = 2
    /\ bootCountSinceUnsuccessfulJoin = 1
    /\ scratch = Scratch(2, 1, 0, FALSE)

\* ------------------------------------------------------------------------
\* Properties of the console formatters (checked under SpecCodec)
\* ------------------------------------------------------------------------

\* the value a string of hexadecimal digits denotes, as two 16-bit halves
RECURSIVE ParseHex(_)
ParseHex(digits) ==
    IF digits = << >> THEN U32(0, 0)
    ELSE LET r == ParseHex(SubSeq(digits, 1, Len(digits) - 1))
         IN U32(((r.hi * 16) + (r.lo \div 4096)) % 65536,
                ((r.lo % 4096) * 16) + digits[Len(digits)])

\* the fPort of a command of the console
PortOf(key) ==
    CASE key = "CMD_GET_DATETIME" -> CMD_GET_DATETIME
      [] key = "CMD_GET_LW_CONFIG" -> CMD_GET_LW_CONFIG
      [] key = "CMD_GET_LW_STATUS" -> CMD_GET_LW_STATUS
      [] key = "sleep_interval" -> CMD_SET_SLEEP_INTERVAL
      [] key = "sleep_interval_long" -> CMD_SET_SLEEP_INTERVAL_LONG
      [] key = "lw_status_interval" -> CMD_SET_LW_STATUS_INTERVAL
      [] key = "epoch" -> CMD_SET_DATETIME

\* C25 (as claimed): for each of the seven downlink commands and every
\* value of its parameter, decodeDownlink of the bytes and the fPort that
\* encodeDownlink produced gives the command and the value back: an interval
\* as the number, the epoch as its hexadecimal numeral.
C25_DownlinkRoundTrip ==
    pc = "decodedDownlink" =>
       LET in == console.input
           out == console.output
       IN /\ console.fPort = PortOf(in.key)
          /\ \A i \in 1..Len(console.bytes) : console.bytes[i] \in 0..255
          /\ CASE in.key \in {"CMD_GET_DATETIME", "CMD_GET_LW_CONFIG",
                              "CMD_GET_LW_STATUS"} ->
                    out.key = "data" /\ out.value = 0
               [] in.key = "epoch" ->
                    /\ out.key = "unixtime"
                    /\ ~out.value.neg
                    /\ ParseHex(out.value.digits) = in.value
               [] OTHER ->
                    out.key = in.key /\ out.value = in.value.lo

\* the name of a time source in the table of the console
SourceName(source) ==
    CASE source = "E_GPS" -> "GPS"
      [] source = "E_RTC" -> "RTC"
      [] source = "E_LORA" -> "LORA"
      [] source = "E_UNSYNCHED" -> "unsynched"
      [] source = "E_SET" -> "set (source unknown)"

\* C26 (as claimed): the time-source code in a get-datetime response is
\* decoded by the uplink formatter to the time source of the device (codes
\* 0 = GPS, 1 = RTC, 2 = LoRa network, 3 = unsynchronised, 4 = set).
C26_TimeSourceDecoded ==
    (pc = "decodedUplink" /\ console.fPort = CMD_GET_DATETIME) =>
       /\ console.bytes[5] \in 0..4
       /\ console.output.rtc_source = SourceName(console.input.dev.source)

\* C27 (as claimed): the get-lw-status response on fPort 0x38 is the battery
\* voltage in two bytes, big endian, and a flags byte; the uplink formatter
\* decodes the voltage as bytes[0] * 256 + bytes[1].
C27_BatteryVoltageDecoded ==
    (pc = "decodedUplink" /\ console.fPort = CMD_GET_LW_STATUS) =>
       /\ Len(console.bytes) = 3
       /\ (console.bytes[1] * 256) + console.bytes[2] = console.input.dev.voltage
       /\ console.output.key = "status"
       /\ console.output.ubatt_mv = (console.bytes[1] * 256) + console.bytes[2]

\* ------------------------------------------------------------------------
\* Properties of the downlink commands (checked under Spec)
\* ------------------------------------------------------------------------

\* C28 (as claimed): an exchange that receives the downlink [0x01, 0x2C] on
\* fPort 0x31 sets sleep_interval to 300 and requests a response on fPort
\* 0x31, so that the next stage is RESPONSE.
C28_SetIntervalAnswered ==
    /\ [][ (pc = "send" /\ prefs'.sleep_interval # prefs.sleep_interval) =>
             /\ prefs'.sleep_interval = 300
             /\ uplinkReq' = CMD_SET_SLEEP_INTERVAL ]_vars
    /\ [][ (pc = "trans" /\ state > 0 /\ prefs.sleep_interval = 300) =>
             fsmStage' = "E_RESPONSE" ]_vars

\* C28 (amended): an exchange that receives the downlink [0x01, 0x2C] on
\* fPort 0x31 sets sleep_interval to 300 and requests no response: the next
\* stage is the one the transition rules give without a pending response;
\* a stage RESPONSE answers a get command on its fPort only.
C28_SetIntervalNotAnswered ==
    /\ [][ (pc = "send" /\ prefs'.sleep_interval # prefs.sleep_interval) =>
             /\ prefs'.sleep_interval = 300
             /\ uplinkReq' = 0 ]_vars
    /\ [][ (pc = "trans" /\ uplinkReq = 0) =>
             fsmStage' = IF uplinkScheduler.uplinks > 0 THEN "E_SENSORDATA"
                         ELSE IF lwStatusUplinkPending THEN "E_LWSTATUS"
                         ELSE "E_DONE" ]_vars
    /\ []((pc = "send" /\ fsmStage = "E_RESPONSE") =>
             fPort \in {CMD_GET_DATETIME, CMD_GET_LW_CONFIG, CMD_GET_LW_STATUS})

C28_Witness ==
    /\ pc = "save"
    /\ fsmStage = "E_DONE"
    /\ exchanges = 1
    /\ state > 0
    /\ prefs.sleep_interval = 300
    /\ uplinkReq = 0

\* ------------------------------------------------------------------------
\* Properties of the link check (checked under Spec)
\* ------------------------------------------------------------------------

\* C29 (as claimed): the uplink of an iteration is sent confirmed, with a
\* link-check request, exactly when the uplink frame counter read at the
\* start of the iteration is a multiple of 64.
C29_ConfirmedAtMultiplesOf64 ==
    pc = "send" =>
       /\ isConfirmed <=> (node.fCntUp % 64 = 0)
       /\ node.linkCheckReq <=> (node.fCntUp % 64 = 0)

\* C29 (amended): the uplink of an iteration is sent confirmed, with a
\* link-check request, exactly when the uplink frame counter read at the
\* start of the iteration is a multiple of 64 other than 0; the first
\* uplink of a new session (frame counter 0) is unconfirmed and carries no
\* link-check request.
C29_ConfirmedAtNonZeroMultiplesOf64 ==
    pc = "send" =>
       /\ isConfirmed <=> (node.fCntUp # 0 /\ node.fCntUp % 64 = 0)
       /\ node.linkCheckReq <=> (node.fCntUp # 0 /\ node.fCntUp % 64 = 0)

C29_Witness ==
    /\ pc = "send"
    /\ exchanges = 1
    /\ node.fCntUp = 64
    /\ isConfirmed
    /\ node.linkCheckReq

\* ------------------------------------------------------------------------
\* Properties of the battery check at wake-up (checked under Spec)
\* ------------------------------------------------------------------------

\* C30: if the battery voltage read at wake-up is measured (not 0) and at
\* most BATTERY_LOW, setup() goes from the battery check straight to
\* gotoSleep(sleepDuration()): the radio is not initialised, the node is
\* neither joined nor restored, nothing is exchanged, no transport call is
\* made, the saved session, the nonces and the preferences are not written,
\* and the boot count has been incremented. (The sleep is entered unless
\* sleepDuration() itself fails in its modulo by zero.)
C30_BatteryLowSleepsImmediately ==
    [][ (pc = "boot" /\ setupVoltage' # 0 /\ setupVoltage' <= BATTERY_LOW) =>
          LET restored == IF platform = "RP2040" THEN RestoredBootCount(scratch)
                                                 ELSE bootCount
          IN /\ sleepCall'.called
             /\ pc' = "sleep" \/ (pc' = "trap" /\ sleepCall'.modByZero)
             /\ ~sleepCall'.modByZero => pc' = "sleep"
             /\ bootCount' = ToUint16(restored + 1)
             /\ node' = NodeReset
             /\ exchanges' = 0
             /\ events' \subseteq {"first boot"}
             /\ LWsession' = LWsession
             /\ flash' = flash ]_vars

C30_Witness ==
    /\ pc = "sleep"
    /\ setupVoltage = BATTERY_LOW
    /\ sleepCall.called
    /\ "first boot" \in events
    /\ bootCount = 2
    /\ ~node.active
    /\ exchanges = 0

\* ------------------------------------------------------------------------
\* Properties of the preferences and of the downlink decoding (checked under Spec)
\* ------------------------------------------------------------------------

\* the value setup() reads for a key: the stored one, or the compiled-in default
StoredOr(key, defaultValue) ==
    IF key \in DOMAIN preferences THEN preferences[key] ELSE defaultValue

\* the struct holds what the namespace holds, defaults for absent keys
PrefsPersisted ==
    /\ prefs.sleep_interval = StoredOr("sleep_int", SLEEP_INTERVAL)
    /\ prefs.sleep_interval_long = StoredOr("sleep_int_long", SLEEP_INTERVAL_LONG)
    /\ prefs.lw_stat_interval = StoredOr("lw_stat_int", LW_STATUS_INTERVAL)

\* the downlink is a set command for a preference, with a payload of the
\* command's size
AcceptedSetCommand(dl) ==
    \/ dl.fPort = CMD_SET_SLEEP_INTERVAL /\ Len(dl.payload) = 2
    \/ dl.fPort = CMD_SET_SLEEP_INTERVAL_LONG /\ Len(dl.payload) = 2
    \/ dl.fPort = CMD_SET_LW_STATUS_INTERVAL /\ Len(dl.payload) = 1

\* C31: the wake-up loads the three preferences from the namespace, with
\* the compiled-in default for every key that is absent; after that the
\* struct and the namespace change only in the step of an exchange whose
\* downlink is an accepted set command, every other step leaves them as
\* they are, and struct and namespace agree whenever the loop goes on (a
\* changed value is in flash before the next exchange).
C31_PrefsFrame ==
    /\ [][ pc = "boot" =>
             /\ preferences' = preferences
             /\ prefs'.sleep_interval = StoredOr("sleep_int", SLEEP_INTERVAL)
             /\ prefs'.sleep_interval_long = StoredOr("sleep_int_long", SLEEP_INTERVAL_LONG)
             /\ prefs'.lw_stat_interval = StoredOr("lw_stat_int", LW_STATUS_INTERVAL) ]_vars
    /\ [][ (pc # "boot" /\ (prefs' # prefs \/ preferences' # preferences)) =>
             /\ pc = "send"
             /\ state' > 0
             /\ AcceptedSetCommand(downlink') ]_vars
    /\ [](pc # "boot" => PrefsPersisted)

C31_Witness ==
    /\ pc = "trans"
    /\ exchanges = 1
    /\ downlink = [fPort |-> CMD_SET_SLEEP_INTERVAL, payload |-> << 1, 44 >>]
    /\ prefs = [DefaultPrefs EXCEPT !.sleep_interval = 300]
    /\ DOMAIN preferences = {"sleep_int"}
    /\ preferences["sleep_int"] = 300

\* the command ids of growatt2lorawan_cmd.h and of the downlink formatter
KnownCommands ==
    {CMD_GET_DATETIME, CMD_SET_DATETIME, CMD_SET_SLEEP_INTERVAL,
     CMD_SET_SLEEP_INTERVAL_LONG, CMD_SET_LW_STATUS_INTERVAL, CMD_GET_LW_CONFIG,
     CMD_GET_LW_STATUS}

\* a downlink with payload whose fPort is no command (fPort 0 included), or
\* a set command for a preference whose payload has not the command's size
UnknownOrMalformed(dl) ==
    /\ Len(dl.payload) > 0
    /\ \/ dl.fPort \notin KnownCommands
       \/ /\ dl.fPort \in {CMD_SET_SLEEP_INTERVAL, CMD_SET_SLEEP_INTERVAL_LONG,
                            CMD_SET_LW_STATUS_INTERVAL}
          /\ ~AcceptedSetCommand(dl)

\* C32: an exchange that receives a downlink with an unrecognized fPort
\* (fPort 0 included) or a malformed command payload leaves the
\* preferences, the namespace and the pending flags as they are and the
\* command id at 0; the clock state changes in that exchange only if the
\* network also answers a pending DeviceTimeReq; the transition that
\* follows does not choose RESPONSE.
C32_UnknownDownlinkIgnored ==
    /\ [][ (pc = "send" /\ state' > 0 /\ UnknownOrMalformed(downlink')) =>
             /\ uplinkReq' = 0
             /\ prefs' = prefs
             /\ preferences' = preferences
             /\ lwStatusUplinkPending' = lwStatusUplinkPending
             /\ appStatusUplinkPending' = appStatusUplinkPending
             /\ \/ /\ rtcLastClockSync' = rtcLastClockSync
                   /\ rtcTimeSource' = rtcTimeSource
                \/ node.timeReq /\ ~node'.timeReq ]_vars
    /\ [][ (pc = "trans" /\ state > 0 /\ UnknownOrMalformed(downlink)) =>
             fsmStage' # "E_RESPONSE" ]_vars

C32_Witness ==
    /\ pc = "trans"
    /\ state > 0
    /\ downlink = [fPort |-> 0, payload |-> << 1 >>]
    /\ fsmStage = "E_RESPONSE"
    /\ fPort = CMD_GET_LW_CONFIG
    /\ uplinkReq = 0

\* ------------------------------------------------------------------------
\* Properties of the retained state at wake-up (checked under SpecJoin)
\* ------------------------------------------------------------------------

C34_ResponseOnRequestPort ==
    /\ []((pc = "trans" /\ uplinkReq # 0) =>
            (state > 0 /\ downlink.fPort = uplinkReq))
    /\ [][ (pc = "trans" /\ uplinkReq # 0) =>
             /\ fsmStage' = "E_RESPONSE"
             /\ uplinkReq' = uplinkReq
             /\ pc' = "loop" ]_vars
    /\ [][ (pc = "trans" /\ uplinkReq = 0) => fsmStage' # "E_RESPONSE" ]_vars
    /\ [][ (pc = "loop" /\ fsmStage = "E_RESPONSE") =>
             /\ uplinkReq # 0
             /\ fPort' = uplinkReq
             /\ pc' = "send" ]_vars

C34_Witness ==
    /\ pc = "send"
    /\ fsmStage = "E_RESPONSE"
    /\ exchanges = 1
    /\ uplinkReq = CMD_GET_LW_CONFIG
    /\ fPort = CMD_GET_LW_CONFIG
    /\ HasUplinks(uplinkScheduler)

\* ------------------------------------------------------------------------
\* Properties of the join (checked under SpecJoin)
\* ------------------------------------------------------------------------

\* the join attempt of this episode has failed and its nonces are saved
JoinFailed ==
    /\ JoinAttempted
    /\ actState # "RADIOLIB_LORAWAN_NEW_SESSION"
    /\ pc \notin {"nonces", "joincheck"}

\* C35: a join attempt is made only in an episode that has made none yet;
\* after a failed attempt and the saving of its nonces the device sleeps
\* (the next attempt belongs to the episode after the wake-up), and in the
\* episode of a failed attempt no exchange is made and the saved session
\* is not written.
C35_OneJoinAttemptPerEpisode ==
    /\ [](pc = "join" => ~JoinAttempted)
    /\ [][ (pc = "joincheck" /\ actState # "RADIOLIB_LORAWAN_NEW_SESSION") =>
             pc' = "sleep" ]_vars
    /\ [](JoinFailed => (pc \in {"sleep", "boot"} /\ exchanges = 0))
    /\ [][ (JoinAttempted /\ actState # "RADIOLIB_LORAWAN_NEW_SESSION") =>
             LWsession' = LWsession ]_vars

C35_Witness ==
    /\ pc = "sleep"
    /\ JoinFailed
    /\ episodes = 2
    /\ failedJoins = 2
    /\ exchanges = 0
    /\ sleepSeconds = ToUint32(120)

\* ------------------------------------------------------------------------
\* Properties of the sensor-data uplinks (checked under Spec)
\* ------------------------------------------------------------------------

\* C36 (as claimed): every exchange made in the SENSOR_DATA stage uses an
\* fPort that is the port of a row due in this cycle, and never the value 0
\* that getNextPort() returns when no row is left.
C36_SensorDataOnDuePorts ==
    (pc = "send" /\ fsmStage = "E_SENSORDATA") =>
        /\ fPort # 0
        /\ \E r \in 1..Len(UplinkSchedule) :
              /\ RowDue(UplinkSchedule[r], uplinkScheduler.cycle)
              /\ UplinkSchedule[r].port = fPort

\* the SENSOR_DATA exchanges of the episode that were not made on the value
\* 0 of an exhausted scheduler
SentSensorPorts == SelectSeq(sensorPorts, LAMBDA port : port # 0)

\* C37: when the uplink loop is over (stage DONE), the fPorts of the
\* SENSOR_DATA exchanges of the episode are the ports of the rows due in the
\* scheduler's cycle, each once and in table order, whatever responses were
\* interleaved and whichever exchanges failed.
C37_EveryDuePortSentOnce ==
    (pc = "save" /\ fsmStage = "E_DONE") =>
        /\ SentSensorPorts = Expected
        /\ Expected # << >> => sensorPorts = Expected
        /\ exchanges >= Len(sensorPorts)

C37_Witness ==
    /\ pc = "save"
    /\ fsmStage = "E_DONE"
    /\ sensorPorts = << 1, 2 >>
    /\ cmds = 1
    /\ exchanges = 3
    /\ state < 0

\* C38: every exchange of a wake episode except the first is preceded, after the
\* previous exchange, by an uplinkDelay() call that waits at least the transport's
\* timeUntilUplink() value; the call is made on the transition to SENSOR_DATA and
\* at the start of a RESPONSE or LW_STATUS iteration, and nowhere else
C38_WaitBeforeLaterExchanges ==
    [][/\ (pc' = "send" /\ exchanges' >= 1) => uplinkWait' = "waited"
       /\ (pc = "send" /\ pc' # "send") => uplinkWait' = "none"
       /\ (uplinkWait = "none" /\ uplinkWait' # "none") =>
             \/ pc = "trans" /\ fsmStage' = "E_SENSORDATA"
             \/ pc = "loop" /\ (fsmStage = "E_RESPONSE" \/ fsmStage = "E_LWSTATUS")
       /\ (pc = "trans" /\ fsmStage' = "E_SENSORDATA") => uplinkWait' # "none"
       /\ (pc = "loop" /\ (fsmStage = "E_RESPONSE" \/ fsmStage = "E_LWSTATUS")) =>
             uplinkWait' # "none"]_vars

\* a third exchange, the LoRaWAN status uplink, is about to be made after its wait
C38_Witness ==
    /\ pc = "send"
    /\ exchanges = 2
    /\ fsmStage = "E_LWSTATUS"
    /\ uplinkWait = "waited"

\* C39: the state machine never enters APP_STATUS: the stage is always one of
\* SENSOR_DATA, RESPONSE, LW_STATUS and DONE; every exchange is made in one of the
\* first three; and when no response is requested, no scheduled uplink is left
\* and no LoRaWAN status uplink is pending, the machine goes to DONE, whether an
\* application status uplink is pending or not
C39_NeverAppStatus ==
    /\ [](fsmStage \in {"E_SENSORDATA", "E_RESPONSE", "E_LWSTATUS", "E_DONE"})
    /\ [][/\ pc = "send" =>
               fsmStage \in {"E_SENSORDATA", "E_RESPONSE", "E_LWSTATUS"}
          /\ (/\ pc = "trans"
              /\ uplinkReq = 0
              /\ ~HasUplinks(uplinkScheduler)
              /\ ~lwStatusUplinkPending) =>
                 (fsmStage' = "E_DONE" /\ pc' = "save" /\ exchanges' = exchanges)]_vars

\* DONE has been reached while an application status uplink is pending
C39_Witness ==
    /\ pc = "save"
    /\ fsmStage = "E_DONE"
    /\ appStatusUplinkPending
    /\ exchanges >= 1

\* C40: the LoRaWAN status flag goes from pending to not pending only in an
\* LW_STATUS iteration, when the uplink is prepared; it is false when that
\* iteration's exchange is made and stays false whatever the exchange returns,
\* so the stage after an LW_STATUS exchange is RESPONSE or DONE; outside the loop
\* body the flag is written only by the reset of the first boot, so going to
\* sleep and waking up keep its value
C40_LwStatusFlagCleared ==
    [][/\ (lwStatusUplinkPending /\ ~lwStatusUplinkPending') =>
             (pc = "loop" /\ fsmStage = "E_LWSTATUS")
       /\ (pc = "loop" /\ fsmStage = "E_LWSTATUS") =>
             (lwStatusUplinkPending /\ ~lwStatusUplinkPending' /\ pc' = "send")
       /\ (pc = "send" /\ fsmStage = "E_LWSTATUS") =>
             (~lwStatusUplinkPending /\ ~lwStatusUplinkPending')
       /\ (pc = "trans" /\ fsmStage = "E_LWSTATUS") =>
             (fsmStage' = "E_RESPONSE" \/ fsmStage' = "E_DONE")
       /\ (pc # "loop" /\ ~(pc = "boot" /\ bootCount = 1)) =>
             lwStatusUplinkPending' = lwStatusUplinkPending]_vars

\* an LW_STATUS exchange has failed, in an iteration at whose frame counter the
\* status uplink was due again, and the flag is not pending
C40_Witness ==
    /\ pc = "trans"
    /\ fsmStage = "E_LWSTATUS"
    /\ state < 0
    /\ prefs.lw_stat_interval = 1
    /\ ~lwStatusUplinkPending

====
